---- MODULE Spec2Model ----
(***************************************************************************)
(* Verification model of the EDA record-classification and enrichment      *)
(* pipeline of ProjectDashboardTeam2: the rule engine (app/EDA/user_eda.py *)
(* and EDA/regex_loader.py), the imputation engine, the pay-period window, *)
(* and the merge/dedup step (app/EDA/update_base.py).                      *)
(*                                                                         *)
(* Tables are records [cols, rows]: cols is the ordered column list, rows  *)
(* a sequence of functions from column name to cell.  A text cell is a     *)
(* sequence of tokens; a token is a text fragment with its case and accent *)
(* made explicit, so that normalisation is computed rather than assumed.   *)
(***************************************************************************)
EXTENDS Integers, Sequences, FiniteSets, TLC

VARIABLES
    op,          \* the operation that produced the current result ("none" before)
    df,          \* the caller's input table
    cfg,         \* the arguments of the call (regex_path = NoPath is None)
    fs,          \* the files the call reads and writes, by path
    out,         \* the table the operation returned
    stats,       \* the statistics object the operation returned
    err,         \* the exception that reached the caller ("none" if it returned)
    ruleset,     \* the ruleset the classifier matched with (its local rx / rgx)
    artifacts    \* the tables and figures an orchestrator run returned; for a
                 \* merge, its locals master_df, new_clean_df and combined

vars == <<op, df, cfg, fs, out, stats, err, ruleset, artifacts>>

\* ------------------------------------------------------------------ bounds
MaxRows == 2
MaxWindow == 3
MaxMasterRows == 2

\* ------------------------------------------------------------ sequences
Range(s) == {s[i] : i \in 1..Len(s)}

SeqMap(F(_), s) == [i \in 1..Len(s) |-> F(s[i])]

\* a local of the code: the value v under the name F gives it
With(v, F(_)) == F(v)

RECURSIVE SeqsUpTo(_, _)
SeqsUpTo(S, n) ==
    IF n = 0 THEN {<<>>}
    ELSE LET shorter == SeqsUpTo(S, n - 1)
         IN  shorter \cup {Append(s, x) : s \in {t \in shorter : Len(t) = n - 1}, x \in S}

RECURSIVE SelectIdx(_, _, _)
\* the indices i..Len(s) of s whose element satisfies the mask, in order
SelectIdx(mask, i, n) ==
    IF i > n THEN <<>>
    ELSE IF mask[i] THEN <<i>> \o SelectIdx(mask, i + 1, n)
    ELSE SelectIdx(mask, i + 1, n)

\* slip: every label that occurs is counted once
CountBy_Presence(labels) == [l \in Range(labels) |-> 1]

\* value_counts(): label -> number of rows carrying it
CountBy(labels) ==
    [l \in Range(labels) |-> Cardinality({i \in 1..Len(labels) : labels[i] = l})]

RECURSIVE SumOver(_, _)
SumOver(f, D) ==
    IF D = {} THEN 0
    ELSE LET d == CHOOSE x \in D : TRUE IN f[d] + SumOver(f, D \ {d})

\* ---------------------------------------------------------------- text
\* A token: fragment w, written in upper case (up) and/or with accents (acc).
W(s) == [w |-> s, up |-> FALSE, acc |-> FALSE]
U(s) == [w |-> s, up |-> TRUE, acc |-> FALSE]
A(s) == [w |-> s, up |-> FALSE, acc |-> TRUE]
UA(s) == [w |-> s, up |-> TRUE, acc |-> TRUE]
SP == W(" ")            \* a run of surplus whitespace
NA == <<W("#NA")>>      \* the missing text cell (None / NaN / pd.NA)
NALiteral == <<U("<NA>")>>  \* the four-character string "<NA>"
NoLabel == "#NA"        \* the missing cell of a label column

IsNA(x) == x = NA

\* str.strip().str.lower(), _strip_accents, str.replace(r"\s+", " "):
\* missing stays missing; every fragment is lower-cased and loses its accents;
\* leading, trailing and surplus inner whitespace disappears.
norm_series(x) ==
    IF IsNA(x) THEN NA
    ELSE SeqMap(W, SeqMap(LAMBDA t : t.w, SelectSeq(x, LAMBDA t : t # SP)))

\* EDA/update_base.py: strip, collapse whitespace, then map(_strip_accents)
\* over every cell - str(pd.NA) is the string "<NA>" - and upper-case.
norm_series_upper(x) ==
    IF IsNA(x) THEN NALiteral
    ELSE SeqMap(U, SeqMap(LAMBDA t : t.w, SelectSeq(x, LAMBDA t : t # SP)))

\* --------------------------------------------------------------- regex
\* A compiled pattern is a union of alternatives, matched by search():
\*   phrase  the words a occur consecutively          \bA B\b
\*   gap     a occurs and b occurs after it           \bA\b.*\bB\b
\*   whole   the text is exactly a                    ^\s*A\s*$
\* ic is re.IGNORECASE.
Ph(ws) == [k |-> "phrase", a |-> SeqMap(U, ws), b |-> <<>>]
Gap(ws, vs) == [k |-> "gap", a |-> SeqMap(U, ws), b |-> SeqMap(U, vs)]
Whole(ws) == [k |-> "whole", a |-> SeqMap(U, ws), b |-> <<>>]

TokEq(p, t, ic) == p.w = t.w /\ p.acc = t.acc /\ (ic \/ p.up = t.up)

OccursAt(text, phrase, i, ic) ==
    /\ i + Len(phrase) - 1 <= Len(text)
    /\ \A j \in 1..Len(phrase) : TokEq(phrase[j], text[i + j - 1], ic)

AltMatch(alt, text, ic) ==
    CASE alt.k = "phrase" ->
            \E i \in 1..(Len(text) + 1) : OccursAt(text, alt.a, i, ic)
      [] alt.k = "gap" ->
            \E i \in 1..(Len(text) + 1) :
                /\ OccursAt(text, alt.a, i, ic)
                /\ \E j \in (i + Len(alt.a))..(Len(text) + 1) : OccursAt(text, alt.b, j, ic)
      [] alt.k = "whole" ->
            Len(text) = Len(alt.a) /\ OccursAt(text, alt.a, 1, ic)

\* search(): some alternative matches; one whose first word the text lacks
\* cannot, and is passed over without scanning the positions
Search(pat, text) ==
    LET ws == {text[i].w : i \in 1..Len(text)}
    IN  \E alt \in pat.alts :
            /\ Len(alt.a) > 0 => alt.a[1].w \in ws
            /\ AltMatch(alt, text, pat.ic)

Compile(alts, ic) == [alts |-> alts, ic |-> ic]

\* ------------------------------------------------- ruleset (app/EDA)
NoPath == "None"
RulesPath == "rules"

\* RegexConfig(patterns, order, macro_map, violent_set)
RegexConfig(patterns, order, macro_map, violent_set) ==
    [patterns |-> patterns, order |-> order, macro_map |-> macro_map,
     violent_set |-> violent_set]

Vehiculos == {"taxi", "metrobus", "metro", "microbus", "autobus", "camion", "pesero",
              "combi", "colectivo", "rtp", "trolebus", "uber", "didi"}

\* the embedded fallback ruleset of _get_regex_runtime, every pattern re.I
EmbeddedPatterns ==
    [SEXUAL_CRIME |-> {Ph(<<"violacion">>), Ph(<<"abuso", "sexual">>),
                       Ph(<<"acoso", "sexual">>), Ph(<<"hostigamiento", "sexual">>),
                       Ph(<<"contra", "la", "intimidad", "sexual">>)},
     INJURY_WEAPON |-> {Gap(<<"lesiones">>, <<"arma">>), Ph(<<"disparo">>)},
     INJURY_INTENTIONAL |-> {Ph(<<"lesiones", "intencional">>),
                             Ph(<<"lesiones", "intencionales">>), Ph(<<"golpes">>)},
     THREATS |-> {Ph(<<"amenaza">>), Ph(<<"amenazas">>), Ph(<<"extorsion">>),
                  Ph(<<"tentativa", "de", "extorsion">>)},
     FAMILY_VIOLENCE |-> {Ph(<<"violencia", "familiar">>)},
     DRUG_POSSESSION |-> {Ph(<<"narcomenudeo">>), Ph(<<"posesion", "simple">>),
                          Ph(<<"droga">>), Ph(<<"drogas">>)},
     FRAUD |-> {Ph(<<"fraude">>), Ph(<<"cobranza", "ilegitima">>), Ph(<<"engano">>),
                Ph(<<"estafa">>), Ph(<<"abuso", "de", "confianza">>)},
     FORGERY_DOC |-> {Gap(<<"falsificacion">>, <<"documento">>),
                      Gap(<<"falsificacion">>, <<"documentos">>),
                      Ph(<<"falsificacion", "de", "titulos">>),
                      Ph(<<"uso", "de", "documento", "falso">>),
                      Ph(<<"uso", "indebido", "de", "documentos">>),
                      Ph(<<"falsedad", "ante", "autoridades">>)},
     ADMIN_OFFENSE |-> {Ph(<<"administracion", "de", "justicia">>), Ph(<<"encubrimiento">>),
                        Ph(<<"negacion", "del", "servicio", "publico">>),
                        Ph(<<"quebrantamiento", "de", "sellos">>),
                        Ph(<<"contra", "el", "cumplimiento", "de", "la", "obligacion",
                             "alimentaria">>),
                        Ph(<<"delitos", "ambientales">>), Ph(<<"discriminacion">>),
                        Ph(<<"ataque", "a", "las", "vias", "generales", "de",
                             "comunicacion">>),
                        Ph(<<"omision", "de", "auxilio">>), Ph(<<"omision", "de", "cuidado">>)},
     ROBBERY_ACCOUNT_HOLDER |-> {Ph(<<"cuentahabiente">>), Ph(<<"cajero">>)},
     ROBBERY_BUSINESS |-> {Ph(<<"robo", "a", "negocio">>), Ph(<<"comercio">>), Ph(<<"tienda">>),
                           Ph(<<"robo", "s/v", "dentro", "de", "negocio">>),
                           Ph(<<"robo", "s/v", "dentro", "de", "negocios">>),
                           Ph(<<"autoservicio">>), Ph(<<"autoservicios">>),
                           Ph(<<"conveniencia">>)},
     ROBBERY_HOME |-> {Ph(<<"casa", "habitacion">>), Ph(<<"domicilio">>), Ph(<<"vivienda">>),
                       Ph(<<"allanamiento", "de", "morada">>), Ph(<<"despacho">>),
                       Ph(<<"oficina">>), Ph(<<"establecimiento", "mercantil">>)},
     ROBBERY_DELIVERY |-> {Ph(<<"repartidor">>)},
     FORCE_OTHER |-> {Whole(<<"de", "la", "via", "publica">>)},
     ROBBERY_PEDESTRIAN_PRIORITY |->
        {Gap(<<"robo", "a", "transeunte">>, <<"a", "bordo", d, v>>) :
            d \in {"de", "del"}, v \in Vehiculos}
        \cup {Ph(<<"robo", "a", "transeunte", "conductor", "de", "taxi">>)}]

EmbeddedOrder ==
    <<"SEXUAL_CRIME", "INJURY_WEAPON", "INJURY_INTENTIONAL", "THREATS", "FAMILY_VIOLENCE",
      "ROBBERY_PEDESTRIAN_PRIORITY", "ROBBERY_ACCOUNT_HOLDER", "ROBBERY_BUSINESS",
      "ROBBERY_HOME", "ROBBERY_DELIVERY", "FORCE_OTHER", "DRUG_POSSESSION", "FRAUD",
      "FORGERY_DOC", "ADMIN_OFFENSE">>

EmbeddedMacro ==
    [ROBBERY_PEDESTRIAN_PRIORITY |-> "ROBBERY_PERSON",
     ROBBERY_ACCOUNT_HOLDER |-> "ROBBERY_PERSON",
     ROBBERY_BUSINESS |-> "ROBBERY_PROPERTY",
     ROBBERY_HOME |-> "ROBBERY_PROPERTY",
     ROBBERY_DELIVERY |-> "ROBBERY_PROPERTY",
     SEXUAL_CRIME |-> "VIOLENT_OTHER",
     INJURY_WEAPON |-> "VIOLENT_OTHER",
     INJURY_INTENTIONAL |-> "VIOLENT_OTHER",
     THREATS |-> "VIOLENT_OTHER",
     FAMILY_VIOLENCE |-> "VIOLENT_OTHER",
     DRUG_POSSESSION |-> "LOW_IMPACT",
     FRAUD |-> "LOW_IMPACT",
     FORGERY_DOC |-> "LOW_IMPACT",
     ADMIN_OFFENSE |-> "NON_CRIME_OTHER",
     FORCE_OTHER |-> "LOW_IMPACT"]

EmbeddedViolent ==
    {"SEXUAL_CRIME", "INJURY_WEAPON", "INJURY_INTENTIONAL", "THREATS", "FAMILY_VIOLENCE"}

EmbeddedConfig ==
    RegexConfig([g \in DOMAIN EmbeddedPatterns |-> Compile(EmbeddedPatterns[g], TRUE)],
                EmbeddedOrder, EmbeddedMacro, EmbeddedViolent)

\* ------------------------------------------------------ ruleset files
\* What a ruleset path can hold: nothing, text no parser accepts, a YAML
\* document (keys = its top-level entries) or a .jam file of NAME = regex
\* lines.  patterns maps a name to its list of alternatives.
File(kind, keys, patterns, order, macro_map, violent_set) ==
    [kind |-> kind, keys |-> keys, patterns |-> patterns, order |-> order,
     macro_map |-> macro_map, violent_set |-> violent_set]

RequiredKeys == <<"patterns", "order", "macro_map", "violent_set">>

Empty == [x \in {} |-> x]

CatDogPatterns == [A |-> <<Ph(<<"cat">>)>>, B |-> <<Ph(<<"dog">>)>>]
CatDogMacro == [A |-> "MACRO_A", B |-> "MACRO_B"]

MissingFile == File("missing", {}, Empty, <<>>, Empty, {})
GarbageFile == File("garbage", {}, Empty, <<>>, Empty, {})
YamlCatDog ==
    File("yaml", Range(RequiredKeys), CatDogPatterns, <<"A", "B">>, CatDogMacro, {"A"})
YamlDogCat ==
    File("yaml", Range(RequiredKeys), CatDogPatterns, <<"B", "A">>, CatDogMacro, {"A"})
YamlNoMacroForB ==
    File("yaml", Range(RequiredKeys), CatDogPatterns, <<"A", "B">>, [A |-> "MACRO_A"], {"A"})
YamlNoOrderKey ==
    File("yaml", Range(RequiredKeys) \ {"order"}, CatDogPatterns, <<>>, CatDogMacro, {"A"})
YamlNoMacroKey ==
    File("yaml", Range(RequiredKeys) \ {"macro_map"}, CatDogPatterns, <<"A", "B">>, Empty, {"A"})
YamlOrderUndefined ==
    File("yaml", Range(RequiredKeys), CatDogPatterns, <<"A", "C", "B">>, CatDogMacro, {"A"})
YamlEmptyPatterns ==
    File("yaml", Range(RequiredKeys), Empty, <<>>, Empty, {})
YamlEmptyList ==
    File("yaml", Range(RequiredKeys), [A |-> <<Ph(<<"cat">>)>>, B |-> <<>>], <<"A">>,
         CatDogMacro, {"A"})

\* a ruleset whose pedestrian-priority group is ordered after another group
YamlPedestrianLast ==
    File("yaml", Range(RequiredKeys),
         [A |-> <<Ph(<<"cat">>)>>, ROBBERY_PEDESTRIAN_PRIORITY |-> <<Ph(<<"dog">>)>>],
         <<"A", "ROBBERY_PEDESTRIAN_PRIORITY">>,
         [A |-> "MACRO_A", ROBBERY_PEDESTRIAN_PRIORITY |-> "ROBBERY_PERSON"], {"A"})

Ok(v) == [ok |-> TRUE, error |-> "none", value |-> v]
Raise(e) == [ok |-> FALSE, error |-> e, value |-> Empty]

\* slip: the loop over order (lines 47-49) is left out
load_regex_config_NoOrderCheck(file) ==
    IF file.kind = "missing" THEN Raise("FileNotFoundError")
    ELSE IF file.kind = "garbage" THEN Raise("YAMLError")
    ELSE IF file.kind = "jam" THEN Raise("ValueError")
    ELSE IF \E i \in 1..Len(RequiredKeys) : RequiredKeys[i] \notin file.keys
        THEN Raise("ValueError")
    ELSE IF DOMAIN file.patterns = {} THEN Raise("ValueError")
    ELSE IF \E g \in DOMAIN file.patterns : file.patterns[g] = <<>>
        THEN Raise("ValueError")
    ELSE Ok(RegexConfig(
            [g \in DOMAIN file.patterns |-> Compile(Range(file.patterns[g]), TRUE)],
            file.order, file.macro_map, file.violent_set))

\* app/EDA/regex_loader.py
load_regex_config(file) ==
    IF file.kind = "missing" THEN Raise("FileNotFoundError")
    ELSE IF file.kind = "garbage" THEN Raise("YAMLError")
    ELSE IF file.kind = "jam" THEN Raise("ValueError")  \* parses to no mapping
    ELSE IF \E i \in 1..Len(RequiredKeys) : RequiredKeys[i] \notin file.keys
        THEN Raise("ValueError")
    ELSE IF DOMAIN file.patterns = {} THEN Raise("ValueError")
    ELSE IF \E g \in DOMAIN file.patterns : file.patterns[g] = <<>>
        THEN Raise("ValueError")
    ELSE IF \E i \in 1..Len(file.order) : file.order[i] \notin DOMAIN file.patterns
        THEN Raise("ValueError")
    ELSE Ok(RegexConfig(
            [g \in DOMAIN file.patterns |-> Compile(Range(file.patterns[g]), TRUE)],
            file.order, file.macro_map, file.violent_set))

\* app/EDA/user_eda.py: the loaded ruleset, or the embedded one when no path
\* is given or loading raised anything at all
_get_regex_runtime(path, file) ==
    With(load_regex_config(file), LAMBDA loaded :
        IF path # NoPath /\ loaded.ok THEN loaded.value ELSE EmbeddedConfig)

\* -------------------------------------------------------------- tables
Table(cols, rows) == [cols |-> cols, rows |-> rows]
NoTable == Table(<<>>, <<>>)
NoStats == [none |-> TRUE]
NoArtifacts == [none |-> TRUE]
NoRx == [none |-> TRUE]

HasCol(t, c) == c \in Range(t.cols)
NRows(t) == Len(t.rows)
Col(t, c) == [i \in 1..NRows(t) |-> t.rows[i][c]]

\* out = df.copy() at the head of every component and of run_eda: the call
\* writes to a table of its own.  The caller's table after a call that was
\* passed `passed` and left `written` in its working table.
copy_Shared(passed, written) == written

copy(passed, written) == passed

\* out[c] = vals: a new column goes last, an existing one keeps its place
SetCol(t, c, vals) ==
    Table(IF HasCol(t, c) THEN t.cols ELSE Append(t.cols, c),
          [i \in 1..NRows(t) |-> (c :> vals[i]) @@ t.rows[i]])

DropCol(t, c) ==
    Table(SelectSeq(t.cols, LAMBDA x : x # c),
          [i \in 1..NRows(t) |-> [x \in (DOMAIN t.rows[i]) \ {c} |-> t.rows[i][x]]])

\* ------------------------------------------- classifier (app/EDA/user_eda)
RECURSIVE FirstMatchFrom_NoSentinel(_, _, _)
\* slip: falling off the end of the order leaves the group missing
FirstMatchFrom_NoSentinel(rx, t, i) ==
    IF i > Len(rx.order) THEN NoLabel
    ELSE IF Search(rx.patterns[rx.order[i]], t) THEN rx.order[i]
    ELSE FirstMatchFrom_NoSentinel(rx, t, i + 1)

RECURSIVE FirstMatchFrom_LastWins(_, _, _)
\* slip: the loop does not stop at the first hit, so the last match wins
FirstMatchFrom_LastWins(rx, t, i) ==
    IF i > Len(rx.order) THEN "OTHER"
    ELSE LET later == FirstMatchFrom_LastWins(rx, t, i + 1)
         IN  IF later # "OTHER" THEN later
             ELSE IF Search(rx.patterns[rx.order[i]], t) THEN rx.order[i]
             ELSE "OTHER"

RECURSIVE FirstMatchFrom(_, _, _)
FirstMatchFrom(rx, t, i) ==
    IF i > Len(rx.order) THEN "OTHER"
    ELSE IF Search(rx.patterns[rx.order[i]], t) THEN rx.order[i]
    ELSE FirstMatchFrom(rx, t, i + 1)

_first_match(rx, text) == FirstMatchFrom(rx, text, 1)

\* slip: the lookup is skipped and every group gets the default
MacroOf_DefaultOnly(rx, k) == "NON_CRIME_OTHER"

MacroOf(rx, k) ==
    IF k \in DOMAIN rx.macro_map THEN rx.macro_map[k] ELSE "NON_CRIME_OTHER"

ViolenceOf(rx, k) == IF k \in rx.violent_set THEN "VIOLENT" ELSE "NON_VIOLENT"

\* slip: the flag follows the primary group alone
PasajeroOf_GroupOnly(rx, k, x) == k = "ROBBERY_PEDESTRIAN_PRIORITY"

PasajeroOf(rx, k, x) ==
    \/ k = "ROBBERY_PEDESTRIAN_PRIORITY"
    \/ /\ "ROBBERY_PEDESTRIAN_PRIORITY" \in DOMAIN rx.patterns
       /\ Search(rx.patterns["ROBBERY_PEDESTRIAN_PRIORITY"], x)

\* round(v * 100.0 / total, 2) in hundredths of a percent, total = max(sum, 1)
MacroPct(counts) ==
    With(IF SumOver(counts, DOMAIN counts) > 1 THEN SumOver(counts, DOMAIN counts) ELSE 1,
         LAMBDA total :
            [k \in DOMAIN counts |-> (2 * 10000 * counts[k] + total) \div (2 * total)])

\* a cell of a nullable boolean column ("boolean" dtype)
BoolCell(b) == IF b THEN "True" ELSE "False"

SourceFlag(path) == IF path # NoPath THEN "external" ELSE "embedded"

\* classify_regex(df, regex_path=path) with `file` at that path:
\* [out, stats, rx] - rx is the ruleset the call classified with
classify_regex(t0, path, file) ==
    With(IF HasCol(t0, "delito") THEN t0
         ELSE SetCol(t0, "delito", [i \in 1..NRows(t0) |-> NA]), LAMBDA t1 :
    With(_get_regex_runtime(path, file), LAMBDA rx :
    With([i \in 1..NRows(t1) |->
            With(norm_series(t1.rows[i]["delito"]), LAMBDA n :
                IF IsNA(n) THEN <<>> ELSE n)], LAMBDA texto :
    With([i \in 1..NRows(t1) |-> _first_match(rx, texto[i])], LAMBDA grupos :
    With(LET macros == [i \in 1..NRows(t1) |-> MacroOf(rx, grupos[i])]
             t2 == SetCol(t1, "delito_grupo", grupos)
             t3 == SetCol(t2, "delito_grupo_macro", macros)
             t4 == SetCol(t3, "violencia_class",
                          [i \in 1..NRows(t1) |-> ViolenceOf(rx, grupos[i])])
         IN  SetCol(t4, "robo_pasajero",
                    [i \in 1..NRows(t1) |->
                       BoolCell(PasajeroOf(rx, grupos[i], texto[i]))]), LAMBDA t5 :
    With(CountBy(Col(t5, "delito_grupo_macro")), LAMBDA macrogroup_counts :
        [out |-> t5,
         stats |-> [group_counts |-> CountBy(Col(t5, "delito_grupo")),
                    macrogroup_counts |-> macrogroup_counts,
                    macrogroup_pct |-> MacroPct(macrogroup_counts),
                    n_total |-> NRows(t5),
                    source |-> SourceFlag(path)],
         rx |-> rx]))))))

\* --------------------------------------- classifier (EDA/regex_loader.py)
GROUP_ORDER ==
    <<"FEMINICIDIO", "HOMICIDIO", "PERDIDA_VIDA_SUICIDIO", "SECUESTRO", "DELITO_SEXUAL",
      "LESIONES_ARMA", "AMENAZAS_EXTORSION", "VIOLENCIA_FAMILIAR", "LESIONES_INTENCIONALES",
      "MALTRATO_ANIMAL", "ROBO_CUENTAHABIENTE", "ROBO_NEGOCIO", "ROBO_CASA",
      "ROBO_REPARTIDOR", "ROBO_TRANSEUNTE_PRIORITARIO", "ROBO_PASAJERO", "ROBO_TRANSEUNTE",
      "ROBO_VEHICULO", "ROBO_OBJETOS", "NARCOMENUDEO_POSESION", "FRAUDE_ABUSO_CONFIANZA",
      "FALSIFICACION_DOCUMENTO", "DELITO_ADMINISTRATIVO", "DELITO_BAJO_IMPACTO",
      "SIN_DELITO", "DESPOJO_VIA_PUBLICA">>

ALIAS ==
    [ROBO_TRANSEUNTE_PRIORITARIO |-> "ROBO_TRANSEUNTE",
     DESPOJO_VIA_PUBLICA |-> "OTRO",
     PERDIDA_VIDA_SUICIDIO |-> "PERDIDA_VIDA_SUICIDIO"]

AliasOf(key) == IF key \in DOMAIN ALIAS THEN ALIAS[key] ELSE key

GROUP_TO_MACRO ==
    [HOMICIDIO |-> "VIOLENCIA_LETAL",
     FEMINICIDIO |-> "VIOLENCIA_LETAL",
     PERDIDA_VIDA_SUICIDIO |-> "VIOLENCIA_LETAL",
     SECUESTRO |-> "VIOLENCIA_NO_LETAL",
     DELITO_SEXUAL |-> "VIOLENCIA_NO_LETAL",
     LESIONES_ARMA |-> "VIOLENCIA_NO_LETAL",
     AMENAZAS_EXTORSION |-> "VIOLENCIA_NO_LETAL",
     VIOLENCIA_FAMILIAR |-> "VIOLENCIA_NO_LETAL",
     LESIONES_INTENCIONALES |-> "VIOLENCIA_NO_LETAL",
     MALTRATO_ANIMAL |-> "VIOLENCIA_NO_LETAL",
     ROBO_TRANSEUNTE |-> "ROBO_PERSONA",
     ROBO_PASAJERO |-> "ROBO_PERSONA",
     ROBO_CUENTAHABIENTE |-> "ROBO_PERSONA",
     ROBO_OBJETOS |-> "ROBO_PERSONA",
     ROBO_TRANSEUNTE_PRIORITARIO |-> "ROBO_PERSONA",
     ROBO_CASA |-> "ROBO_PROPIEDAD",
     ROBO_NEGOCIO |-> "ROBO_PROPIEDAD",
     ROBO_VEHICULO |-> "ROBO_PROPIEDAD",
     ROBO_REPARTIDOR |-> "ROBO_PROPIEDAD",
     SIN_DELITO |-> "ADMINISTRATIVO",
     DELITO_BAJO_IMPACTO |-> "ADMINISTRATIVO",
     DELITO_ADMINISTRATIVO |-> "ADMINISTRATIVO",
     FALSIFICACION_DOCUMENTO |-> "ADMINISTRATIVO",
     NARCOMENUDEO_POSESION |-> "BAJO_IMPACTO",
     FRAUDE_ABUSO_CONFIANZA |-> "BAJO_IMPACTO",
     DESPOJO_VIA_PUBLICA |-> "BAJO_IMPACTO",
     OTRO |-> "BAJO_IMPACTO"]

MAP_VIOLENCIA ==
    [SIN_DELITO |-> "NO_APLICA",
     DELITO_BAJO_IMPACTO |-> "NO_APLICA",
     HOMICIDIO |-> "CON_VIOLENCIA",
     FEMINICIDIO |-> "CON_VIOLENCIA",
     SECUESTRO |-> "CON_VIOLENCIA",
     DELITO_SEXUAL |-> "CON_VIOLENCIA",
     LESIONES_ARMA |-> "CON_VIOLENCIA",
     AMENAZAS_EXTORSION |-> "CON_VIOLENCIA",
     VIOLENCIA_FAMILIAR |-> "CON_VIOLENCIA",
     LESIONES_INTENCIONALES |-> "CON_VIOLENCIA",
     MALTRATO_ANIMAL |-> "CON_VIOLENCIA",
     ROBO_TRANSEUNTE |-> "CON_VIOLENCIA",
     ROBO_REPARTIDOR |-> "CON_VIOLENCIA",
     ROBO_CUENTAHABIENTE |-> "CON_VIOLENCIA",
     ROBO_PASAJERO |-> "CON_VIOLENCIA",
     ROBO_NEGOCIO |-> "DESCONOCIDO",
     ROBO_CASA |-> "DESCONOCIDO",
     ROBO_VEHICULO |-> "DESCONOCIDO",
     ROBO_OBJETOS |-> "DESCONOCIDO",
     NARCOMENUDEO_POSESION |-> "NO_APLICA",
     FRAUDE_ABUSO_CONFIANZA |-> "NO_APLICA",
     FALSIFICACION_DOCUMENTO |-> "NO_APLICA",
     DELITO_ADMINISTRATIVO |-> "NO_APLICA",
     PERDIDA_VIDA_SUICIDIO |-> "NO_APLICA",
     OTRO |-> "DESCONOCIDO"]

\* A regex_config.jam: one upper-case pattern per group of GROUP_ORDER.
JamPatterns ==
    [FEMINICIDIO |-> <<Ph(<<"feminicidio">>)>>,
     HOMICIDIO |-> <<Ph(<<"homicidio">>)>>,
     PERDIDA_VIDA_SUICIDIO |-> <<Ph(<<"suicidio">>)>>,
     SECUESTRO |-> <<Ph(<<"secuestro">>)>>,
     DELITO_SEXUAL |-> <<Ph(<<"violacion">>), Ph(<<"abuso", "sexual">>)>>,
     LESIONES_ARMA |-> <<Gap(<<"lesiones">>, <<"arma">>)>>,
     AMENAZAS_EXTORSION |-> <<Ph(<<"amenazas">>), Ph(<<"extorsion">>)>>,
     VIOLENCIA_FAMILIAR |-> <<Ph(<<"violencia", "familiar">>)>>,
     LESIONES_INTENCIONALES |-> <<Ph(<<"lesiones">>)>>,
     MALTRATO_ANIMAL |-> <<Ph(<<"maltrato", "animal">>)>>,
     ROBO_CUENTAHABIENTE |-> <<Ph(<<"cuentahabiente">>)>>,
     ROBO_NEGOCIO |-> <<Ph(<<"negocio">>)>>,
     ROBO_CASA |-> <<Ph(<<"casa", "habitacion">>)>>,
     ROBO_REPARTIDOR |-> <<Ph(<<"repartidor">>)>>,
     ROBO_TRANSEUNTE_PRIORITARIO |-> <<Gap(<<"robo", "a", "transeunte">>, <<"taxi">>)>>,
     ROBO_PASAJERO |-> <<Ph(<<"a", "bordo", "de">>)>>,
     ROBO_TRANSEUNTE |-> <<Ph(<<"transeunte">>)>>,
     ROBO_VEHICULO |-> <<Ph(<<"vehiculo">>)>>,
     ROBO_OBJETOS |-> <<Ph(<<"robo", "de", "objetos">>)>>,
     NARCOMENUDEO_POSESION |-> <<Ph(<<"narcomenudeo">>)>>,
     FRAUDE_ABUSO_CONFIANZA |-> <<Ph(<<"fraude">>)>>,
     FALSIFICACION_DOCUMENTO |-> <<Ph(<<"falsificacion">>)>>,
     DELITO_ADMINISTRATIVO |-> <<Ph(<<"encubrimiento">>)>>,
     DELITO_BAJO_IMPACTO |-> <<Ph(<<"delito", "de", "bajo", "impacto">>)>>,
     SIN_DELITO |-> <<Ph(<<"hecho", "no", "delictivo">>)>>,
     DESPOJO_VIA_PUBLICA |-> <<Whole(<<"de", "la", "via", "publica">>)>>]

JamFull == File("jam", {}, JamPatterns, <<>>, Empty, {})
JamPartial ==
    File("jam", {},
         [g \in (DOMAIN JamPatterns) \ {"ROBO_OBJETOS"} |-> JamPatterns[g]], <<>>, Empty, {})

\* load_regex_config(path): NAME = regex lines, compiled case-sensitively;
\* lines without "=" are skipped, so any other text loads as no pattern
load_regex_config_jam(file) ==
    IF file.kind = "missing" THEN Raise("FileNotFoundError")
    ELSE IF file.kind = "jam"
        THEN Ok([g \in DOMAIN file.patterns |-> Compile(Range(file.patterns[g]), FALSE)])
    ELSE Ok(Empty)

RECURSIVE GroupFrom(_, _, _)
\* the first key of GROUP_ORDER[i..] present in rgx whose pattern matches t
GroupFrom(t, rgx, i) ==
    IF i > Len(GROUP_ORDER) THEN NoLabel
    ELSE IF GROUP_ORDER[i] \in DOMAIN rgx /\ ~IsNA(t) /\ Search(rgx[GROUP_ORDER[i]], t)
        THEN AliasOf(GROUP_ORDER[i])
    ELSE GroupFrom(t, rgx, i + 1)

\* out.where(t.isna(), out.fillna("OTRO")): OTRO only where the text is present
_group_from_text(t, rgx) ==
    With(GroupFrom(t, rgx, 1), LAMBDA g :
        IF IsNA(t) THEN g ELSE IF g = NoLabel THEN "OTRO" ELSE g)

Contains(rgx, key, t) ==
    /\ ~IsNA(t)
    /\ IF key \in DOMAIN rgx THEN Search(rgx[key], t) ELSE TRUE

ForceFromContext(g, t, rgx) ==
    With(IF (g = NoLabel \/ g = "OTRO") /\ Contains(rgx, "ROBO_VEHICULO", t)
         THEN "ROBO_VEHICULO" ELSE g, LAMBDA g1 :
        IF (g1 = NoLabel \/ g1 = "OTRO") /\ Contains(rgx, "ROBO_OBJETOS", t)
        THEN "ROBO_OBJETOS" ELSE g1)

MacroOfJam(g) == IF g \in DOMAIN GROUP_TO_MACRO THEN GROUP_TO_MACRO[g] ELSE "NO_DELITO_OTROS"

ViolenciaOfJam(g) == IF g \in DOMAIN MAP_VIOLENCIA THEN MAP_VIOLENCIA[g] ELSE NoLabel

\* classify_regex(df, regex_config_path=path) of EDA/regex_loader.py
classify_regex_jam(t0, path, file) ==
    IF path = NoPath THEN Raise("ValueError")
    ELSE
    With(load_regex_config_jam(file), LAMBDA loaded :
    IF ~loaded.ok THEN Raise(loaded.error)
    ELSE
    With(loaded.value, LAMBDA rgx :
    IF \E i \in 1..Len(GROUP_ORDER) : GROUP_ORDER[i] \notin DOMAIN rgx THEN Raise("KeyError")
    ELSE
    With([i \in 1..NRows(t0) |->
            IF HasCol(t0, "delito") THEN norm_series_upper(t0.rows[i]["delito"])
            ELSE <<>>], LAMBDA t :
    With([i \in 1..NRows(t0) |-> ForceFromContext(_group_from_text(t[i], rgx), t[i], rgx)],
         LAMBDA grp :
    With(LET t2 == SetCol(t0, "delito_grupo", grp)
             t3 == SetCol(t2, "delito_grupo_macro",
                          [i \in 1..NRows(t0) |-> MacroOfJam(grp[i])])
             t4 == SetCol(t3, "clase_violencia",
                          [i \in 1..NRows(t0) |-> ViolenciaOfJam(grp[i])])
         IN  SetCol(t4, "robo_pasajero",
                    [i \in 1..NRows(t0) |->
                       IF Contains(rgx, "ROBO_PASAJERO", t[i]) THEN 1 ELSE 0]), LAMBDA t5 :
        Ok([out |-> t5,
            stats |-> [conteos_macrogrupo |-> CountBy(Col(t5, "delito_grupo_macro")),
                       n_grupos_despues |-> Cardinality(Range(grp)),
                       n_robo_pasajero_1 |->
                          Cardinality({i \in 1..NRows(t0) : t5.rows[i]["robo_pasajero"] = 1}),
                       total_registros |-> NRows(t5)],
            rx |-> rgx]))))))

\* ------------------------------------------------- classification runs
TxtEmpty == <<>>
TxtBlank == <<SP>>
TxtCatDog == <<W("a"), W("cat"), W("chased"), W("a"), W("dog")>>
TxtDog == <<SP, U("dog")>>
TxtFraude == <<U("fraude"), A("electronico"), W("a"), W("cuentahabiente")>>
TxtTaxi == <<U("robo"), W("a"), A("transeunte"), W("a"), W("bordo"), W("de"), W("taxi")>>
TxtViolencia == <<W("violencia"), SP, W("familiar"), W("en"), W("domicilio")>>
TxtVia == <<W("de"), W("la"), A("via"), A("publica"), SP>>

SampleTexts ==
    {NA, TxtEmpty, TxtBlank, TxtCatDog, TxtDog, TxtFraude, TxtTaxi, TxtViolencia, TxtVia}

RulesetFiles ==
    {MissingFile, GarbageFile, YamlCatDog, YamlDogCat, YamlNoMacroForB, YamlNoOrderKey,
     YamlNoMacroKey, YamlOrderUndefined, YamlEmptyPatterns, YamlEmptyList, JamFull, JamPartial,
     YamlPedestrianLast}

\* raw batches: up to MaxRows descriptions, or no description column at all
DelitoTables ==
    {Table(<<"delito">>, [i \in 1..Len(s) |-> [delito |-> s[i]]]) :
        s \in SeqsUpTo(SampleTexts, MaxRows)}
    \cup {Table(<<>>, [i \in 1..n |-> Empty]) : n \in 0..MaxRows}

InitClassify ==
    /\ op = "none"
    /\ df \in DelitoTables
    /\ \E p \in {NoPath, RulesPath}, f \in RulesetFiles :
          /\ p = NoPath => f = MissingFile
          /\ cfg = [regex_path |-> p]
          /\ fs = [rules |-> f]
    /\ out = NoTable
    /\ stats = NoStats
    /\ err = "none"
    /\ ruleset = NoRx
    /\ artifacts = NoArtifacts

\* app/EDA/user_eda.py classify_regex(df, regex_path=cfg.regex_path)
ClassifyRegex ==
    /\ op = "none"
    /\ \E r \in {classify_regex(df, cfg.regex_path, fs.rules)} :
          /\ out' = r.out
          /\ stats' = r.stats
          /\ ruleset' = r.rx
    /\ err' = "none"
    /\ df' = copy(df, out')
    /\ op' = "classify_regex"
    /\ UNCHANGED <<artifacts, cfg, fs>>

\* EDA/regex_loader.py classify_regex(df, regex_config_path=cfg.regex_path)
ClassifyRegexJam ==
    /\ op = "none"
    /\ \E r \in {classify_regex_jam(df, cfg.regex_path, fs.rules)} :
          IF r.ok
          THEN /\ out' = r.value.out
               /\ stats' = r.value.stats
               /\ ruleset' = r.value.rx
               /\ err' = "none"
          ELSE /\ err' = r.error
               /\ UNCHANGED <<out, stats, ruleset>>
    /\ df' = copy(df, out')
    /\ op' = "classify_regex_jam"
    /\ UNCHANGED <<artifacts, cfg, fs>>

\* app/EDA/regex_loader.py load_regex_config(cfg.regex_path), called directly
LoadRegexConfig ==
    /\ op = "none"
    /\ cfg.regex_path # NoPath
    /\ \E r \in {load_regex_config(fs.rules)} :
          IF r.ok THEN ruleset' = r.value /\ err' = "none"
          ELSE err' = r.error /\ UNCHANGED ruleset
    /\ op' = "load_regex_config"
    /\ UNCHANGED <<artifacts, df, cfg, fs, out, stats>>

\* app/EDA/user_eda.py norm_series(df["delito"]), called directly
NormSeries ==
    /\ op = "none"
    /\ HasCol(df, "delito")
    /\ out' = SetCol(df, "delito", [i \in 1..NRows(df) |-> norm_series(df.rows[i]["delito"])])
    /\ err' = "none"
    /\ op' = "norm_series"
    /\ UNCHANGED <<artifacts, df, cfg, fs, stats, ruleset>>

\* EDA/update_base.py norm_series(df["delito"]), called directly
NormSeriesUB ==
    /\ op = "none"
    /\ HasCol(df, "delito")
    /\ out' = SetCol(df, "delito",
                     [i \in 1..NRows(df) |-> norm_series_upper(df.rows[i]["delito"])])
    /\ err' = "none"
    /\ op' = "norm_series_ub"
    /\ UNCHANGED <<artifacts, df, cfg, fs, stats, ruleset>>

NextClassify ==
    ClassifyRegex \/ ClassifyRegexJam \/ LoadRegexConfig \/ NormSeries \/ NormSeriesUB

SpecClassify == InitClassify /\ [][NextClassify]_vars

\* ------------------------------------------------- classification claims
AppClassified == op = "classify_regex"
JamClassified == op = "classify_regex_jam" /\ err = "none"

\* the text the app classifier matches row i of the input against
TextoOf(i) ==
    IF ~HasCol(df, "delito") \/ IsNA(norm_series(df.rows[i]["delito"])) THEN <<>>
    ELSE norm_series(df.rows[i]["delito"])

\* the text the .jam classifier matches row i of the input against
TextoJamOf(i) ==
    IF ~HasCol(df, "delito") THEN <<>> ELSE norm_series_upper(df.rows[i]["delito"])

GroupOf(i) == out.rows[i]["delito_grupo"]
MacroAt(i) == out.rows[i]["delito_grupo_macro"]

\* C1: after classify_regex every record of the batch - missing, empty and
\* unmatched descriptions included - carries exactly one non-missing crime
\* group, a member of the ruleset's order or the sentinel (OTHER / OTRO).
C1_GroupAlwaysAssigned ==
    /\ AppClassified =>
          /\ NRows(out) = NRows(df)
          /\ HasCol(out, "delito_grupo")
          /\ \A i \in 1..NRows(out) :
                /\ GroupOf(i) # NoLabel
                /\ GroupOf(i) \in Range(ruleset.order) \cup {"OTHER"}
    /\ JamClassified =>
          /\ NRows(out) = NRows(df)
          /\ HasCol(out, "delito_grupo")
          /\ \A i \in 1..NRows(out) :
                /\ GroupOf(i) # NoLabel
                /\ GroupOf(i) \in Range(GROUP_ORDER) \cup {"OTRO"}

\* a missing description and an unmatched one were classified as the sentinel
C1_Witness ==
    /\ JamClassified
    /\ HasCol(df, "delito")
    /\ \E i \in 1..NRows(df) : IsNA(df.rows[i]["delito"]) /\ GroupOf(i) = "OTRO"
    /\ \E i \in 1..NRows(df) : df.rows[i]["delito"] = TxtCatDog /\ GroupOf(i) = "OTRO"

\* A is the first group of `order` (a sequence of keys of `patterns`) that text t matches
FirstHit(patterns, order, a, t) ==
    /\ Search(patterns[order[a]], t)
    /\ \A b \in 1..(a - 1) : ~Search(patterns[order[b]], t)

\* t also matches a group ordered after position a
LaterHit(patterns, order, a, t) ==
    \E b \in (a + 1)..Len(order) : Search(patterns[order[b]], t)

\* C2 as stated: a text that matches A and a later group B, and nothing before
\* A, is assigned A itself - in both classifiers.
C2_FirstMatchLiteral ==
    /\ AppClassified =>
          \A i \in 1..NRows(out) : \A a \in 1..Len(ruleset.order) :
             (FirstHit(ruleset.patterns, ruleset.order, a, TextoOf(i))
                /\ LaterHit(ruleset.patterns, ruleset.order, a, TextoOf(i)))
             => GroupOf(i) = ruleset.order[a]
    /\ JamClassified =>
          \A i \in 1..NRows(out) : \A a \in 1..Len(GROUP_ORDER) :
             (FirstHit(ruleset, GROUP_ORDER, a, TextoJamOf(i))
                /\ LaterHit(ruleset, GROUP_ORDER, a, TextoJamOf(i)))
             => GroupOf(i) = GROUP_ORDER[a]

\* C2 (amended): a text that matches A and a later group B, and nothing before
\* A, is assigned the label of A - A itself in app/EDA/user_eda.py, ALIAS.get(A, A)
\* in EDA/regex_loader.py - whatever B is.
C2_FirstMatchLabel ==
    /\ AppClassified =>
          \A i \in 1..NRows(out) : \A a \in 1..Len(ruleset.order) :
             (FirstHit(ruleset.patterns, ruleset.order, a, TextoOf(i))
                /\ LaterHit(ruleset.patterns, ruleset.order, a, TextoOf(i)))
             => GroupOf(i) = ruleset.order[a]
    /\ JamClassified =>
          \A i \in 1..NRows(out) : \A a \in 1..Len(GROUP_ORDER) :
             (FirstHit(ruleset, GROUP_ORDER, a, TextoJamOf(i))
                /\ LaterHit(ruleset, GROUP_ORDER, a, TextoJamOf(i)))
             => GroupOf(i) = (IF GROUP_ORDER[a] \in DOMAIN ALIAS THEN ALIAS[GROUP_ORDER[a]]
                              ELSE GROUP_ORDER[a])

\* order = [A, B], A = 'cat', B = 'dog': 'a cat chased a dog' was classified A
C2_Witness ==
    /\ AppClassified
    /\ cfg.regex_path = RulesPath /\ fs.rules = YamlCatDog
    /\ HasCol(df, "delito")
    /\ \E i \in 1..NRows(df) : df.rows[i]["delito"] = TxtCatDog /\ GroupOf(i) = "A"

\* C3: the macro-category of every classified record is the value the static
\* group-to-macro mapping gives its crime group, so records of one group
\* share one macro-category.
C3_MacroIsFunctionOfGroup ==
    /\ AppClassified =>
          /\ \A i \in 1..NRows(out) :
                GroupOf(i) \in DOMAIN ruleset.macro_map
                   => MacroAt(i) = ruleset.macro_map[GroupOf(i)]
          /\ \A i, j \in 1..NRows(out) : GroupOf(i) = GroupOf(j) => MacroAt(i) = MacroAt(j)
    /\ JamClassified =>
          /\ \A i \in 1..NRows(out) :
                GroupOf(i) \in DOMAIN GROUP_TO_MACRO
                   => MacroAt(i) = GROUP_TO_MACRO[GroupOf(i)]
          /\ \A i, j \in 1..NRows(out) : GroupOf(i) = GroupOf(j) => MacroAt(i) = MacroAt(j)

\* two records of different groups were given their groups' macro-categories
C3_Witness ==
    /\ AppClassified
    /\ \E i, j \in 1..NRows(out) :
          /\ GroupOf(i) = "ROBBERY_ACCOUNT_HOLDER" /\ MacroAt(i) = "ROBBERY_PERSON"
          /\ GroupOf(j) = "FAMILY_VIOLENCE" /\ MacroAt(j) = "VIOLENT_OTHER"

\* C9: the source flag of the classification statistics says which ruleset
\* classified the batch: "embedded" exactly when the embedded fallback was
\* used, "external" exactly when the patterns loaded from the path were.
C9_SourceFlagTruthful ==
    AppClassified =>
       /\ stats.source = "embedded" <=> ruleset = EmbeddedConfig
       /\ stats.source = "external" <=>
             (load_regex_config(fs.rules).ok /\ ruleset = load_regex_config(fs.rules).value)

\* C10: a ruleset naming a group that its macro mapping lacks is refused at
\* load time: no batch is classified with one, and no configured group is
\* given the default macro-category.
C10_MacroCoverageEnforced ==
    AppClassified =>
       /\ \A g \in DOMAIN ruleset.patterns : g \in DOMAIN ruleset.macro_map
       /\ \A i \in 1..NRows(out) :
             GroupOf(i) \in Range(ruleset.order) => GroupOf(i) \in DOMAIN ruleset.macro_map

\* the file at the path is a YAML mapping that load_regex_config was given
LoadedYaml == op = "load_regex_config" /\ fs.rules.kind = "yaml"

\* the three defects of a ruleset file the specification lists
ListedDefect(file) ==
    \/ \E i \in 1..Len(RequiredKeys) : RequiredKeys[i] \notin file.keys
    \/ DOMAIN file.patterns = {}
    \/ \E i \in 1..Len(file.order) : file.order[i] \notin DOMAIN file.patterns

\* a group whose list of patterns is empty
EmptyPatternList(file) == \E g \in DOMAIN file.patterns : file.patterns[g] = <<>>

\* the call returned a configuration in which every group of order is compiled
LoadedComplete ==
    /\ err = "none"
    /\ ruleset # NoRx
    /\ ruleset.order = fs.rules.order
    /\ \A i \in 1..Len(ruleset.order) :
          /\ ruleset.order[i] \in DOMAIN ruleset.patterns
          /\ ruleset.patterns[ruleset.order[i]] =
                Compile(Range(fs.rules.patterns[ruleset.order[i]]), TRUE)

\* the call raised ValueError and returned nothing
LoadRefused == err = "ValueError" /\ ruleset = NoRx

C19_MissingStaysMissing ==
    op \in {"norm_series", "norm_series_ub"} =>
       /\ err = "none"
       /\ \A i \in 1..NRows(df) :
             IsNA(df.rows[i]["delito"]) =>
                IsNA(out.rows[i]["delito"]) /\ out.rows[i]["delito"] # NALiteral

\* ------------------------------------------- imputation (app/EDA/user_eda)
\* A numeric cell holds one number, or nothing when it is missing (NaN).
\* Coordinates are in units fine enough that the medians of the sample
\* values are whole numbers.
NaN == <<>>
Num(v) == <<v>>
IsNaN(x) == Len(x) = 0

\* astype("string").str.strip() == "": nothing but whitespace
IsBlank(x) == ~IsNA(x) /\ \A k \in 1..Len(x) : x[k] = SP

\* slip: the assignment writes no row at all
LocAssign_Nowhere(vals, mask, new) == vals

\* slip: the assignment ignores the mask and rewrites the whole column
LocAssign_Everywhere(vals, mask, new) == [i \in DOMAIN vals |-> new[i]]

\* out.loc[mask, col] = new: only the masked rows are written
LocAssign(vals, mask, new) == [i \in DOMAIN vals |-> IF mask[i] THEN new[i] ELSE vals[i]]

CountTrue(mask) == Cardinality({i \in DOMAIN mask : mask[i]})

\* slip: only colonia_hecho is filled
cross_fill_colonias_OneWay(t) ==
    IF HasCol(t, "colonia_hecho") /\ HasCol(t, "colonia_catalogo")
    THEN With([i \in 1..NRows(t) |->
                 IsNA(t.rows[i]["colonia_hecho"]) /\ ~IsNA(t.rows[i]["colonia_catalogo"])],
              LAMBDA mask_h :
             [out |-> SetCol(t, "colonia_hecho",
                             LocAssign(Col(t, "colonia_hecho"), mask_h,
                                       Col(t, "colonia_catalogo"))),
              stats |-> [filled_hecho_from_catalogo |-> CountTrue(mask_h),
                         filled_catalogo_from_hecho |-> 0]])
    ELSE [out |-> t,
          stats |-> [filled_hecho_from_catalogo |-> 0, filled_catalogo_from_hecho |-> 0]]

\* cross_fill_colonias(df): [out, stats]
cross_fill_colonias(t) ==
    IF HasCol(t, "colonia_hecho") /\ HasCol(t, "colonia_catalogo")
    THEN With(Col(t, "colonia_hecho"), LAMBDA h0 :
         With(Col(t, "colonia_catalogo"), LAMBDA c0 :
         With([i \in 1..NRows(t) |-> IsNA(h0[i]) /\ ~IsNA(c0[i])], LAMBDA mask_h :
         With(LocAssign(h0, mask_h, c0), LAMBDA h1 :
         With([i \in 1..NRows(t) |-> IsNA(c0[i]) /\ ~IsNA(h1[i])], LAMBDA mask_c :
         With(LocAssign(c0, mask_c, h1), LAMBDA c1 :
             [out |-> SetCol(SetCol(t, "colonia_hecho", h1), "colonia_catalogo", c1),
              stats |-> [filled_hecho_from_catalogo |-> CountTrue(mask_h),
                         filled_catalogo_from_hecho |-> CountTrue(mask_c)]]))))))
    ELSE [out |-> t,
          stats |-> [filled_hecho_from_catalogo |-> 0, filled_catalogo_from_hecho |-> 0]]

CompFederal == <<U("federal")>>
CompLocal == <<U("local")>>
CompUnknown == <<U("unknown")>>
CompComun == <<W("fuero"), SP, A("comun")>>

\* the non-missing values a competencia column can hold, in str order
\* (upper case sorts before lower case): mode() returns its ties sorted
CompetenciaSorted == <<CompFederal, CompLocal, CompUnknown, CompComun>>

\* fill_competencia._rule on a normalised cell
_rule(x) ==
    IF IsNA(x) THEN NA
    ELSE IF \E k \in 1..Len(x) : x[k].w = "federal" THEN CompFederal
    ELSE IF \E k \in 1..Len(x) : x[k].w = "local" THEN CompLocal
    ELSE NA

\* s.dropna().mode().iloc[0], NaN for a group without a value
ModeOf(vals) ==
    LET present == {i \in 1..Len(vals) : ~IsNA(vals[i])}
        n(v) == Cardinality({i \in present : vals[i] = v})
        top(k) == /\ n(CompetenciaSorted[k]) > 0
                  /\ \A j \in 1..Len(CompetenciaSorted) :
                        n(CompetenciaSorted[j]) <= n(CompetenciaSorted[k])
    IN  IF present = {} THEN NA
        ELSE CompetenciaSorted[CHOOSE k \in 1..Len(CompetenciaSorted) :
                                  top(k) /\ \A j \in 1..(k - 1) : ~top(j)]

\* the rows of key column `by` that carry key k (groupby drops missing keys)
GroupRows(t, by, k) == SelectIdx([i \in 1..NRows(t) |-> t.rows[i][by] = k], 1, NRows(t))

\* fill_competencia(df, alcaldia_col=alc): [out, stats]
fill_competencia(t0, alc) ==
    With(IF HasCol(t0, "competencia") THEN t0
         ELSE SetCol(t0, "competencia", [i \in 1..NRows(t0) |-> NA]), LAMBDA t1 :
    With(Col(t1, "competencia"), LAMBDA c0 :
    With(LET txt == [i \in 1..NRows(t1) |-> norm_series(c0[i])]
             is_na == [i \in 1..NRows(t1) |-> IsNA(c0[i]) \/ IsBlank(c0[i])]
         IN  LocAssign(c0, is_na, [i \in 1..NRows(t1) |-> _rule(txt[i])]), LAMBDA c1 :
    With(SetCol(t1, "competencia", c1), LAMBDA t2 :
    With(LET moda(k) == With(GroupRows(t2, alc, k), LAMBDA idx :
                            ModeOf([j \in 1..Len(idx) |-> c1[idx[j]]]))
             still_na == [i \in 1..NRows(t1) |-> IsNA(c1[i])]
         IN  IF HasCol(t2, alc)
             THEN LocAssign(c1, still_na,
                            [i \in 1..NRows(t1) |->
                               IF IsNA(t2.rows[i][alc]) THEN NA ELSE moda(t2.rows[i][alc])])
             ELSE c1, LAMBDA c2 :
    With([i \in 1..NRows(t1) |-> IF IsNA(c2[i]) THEN CompUnknown ELSE c2[i]], LAMBDA c3 :
        [out |-> SetCol(t2, "competencia", c3), stats |-> [counts |-> CountBy(c3)]]))))))

\* ------------------------------------------ imputation (EDA/update_base)
CompDesconocido == <<U("desconocido")>>

\* the values a competencia column can hold, in str order: "" and blanks
\* sort before letters, upper case before lower case
CompetenciaSortedUB ==
    <<TxtEmpty, TxtBlank, CompDesconocido, CompFederal, CompLocal, CompUnknown, CompComun>>

\* s.mode(dropna=True).iloc[0], pd.NA for a group without a value
ModeOfUB(vals) ==
    LET n(v) == Cardinality({i \in 1..Len(vals) : ~IsNA(vals[i]) /\ vals[i] = v})
        top(k) == /\ n(CompetenciaSortedUB[k]) > 0
                  /\ \A j \in 1..Len(CompetenciaSortedUB) :
                        n(CompetenciaSortedUB[j]) <= n(CompetenciaSortedUB[k])
    IN  IF \A i \in 1..Len(vals) : IsNA(vals[i]) THEN NA
        ELSE CompetenciaSortedUB[CHOOSE k \in 1..Len(CompetenciaSortedUB) :
                                    top(k) /\ \A j \in 1..(k - 1) : ~top(j)]

\* federal_pat and local_pat, matched case-sensitively on upper-cased text
FederalPat ==
    Compile({Ph(<<"fgr">>), Ph(<<"pgr">>), Ph(<<"republica">>), Ph(<<"seido">>),
             Ph(<<"federal">>)}, FALSE)
LocalPat ==
    Compile({Ph(<<"fgj">>), Ph(<<"pgj">>), Ph(<<"cdmx">>), Ph(<<"local">>),
             Ph(<<"fuero", "comun">>), Ph(<<"justicia">>)}, FALSE)

\* slip: the institutional context is never read
ContextCell_Empty(t, c, i) == <<>>

\* fill_competencia.g(c) for row i: the normalised cell, "" without the column
ContextCell(t, c, i) == IF HasCol(t, c) THEN norm_series_upper(t.rows[i][c]) ELSE <<>>

\* EDA/update_base.py fill_competencia(df): [out, stats].  groupby keeps the
\* rows without an area as a group of their own (dropna=False).
fill_competencia_ub(t0) ==
    With(IF HasCol(t0, "competencia") THEN t0
         ELSE SetCol(t0, "competencia", [i \in 1..NRows(t0) |-> NA]), LAMBDA t1 :
    With([i \in 1..NRows(t1) |->
            ContextCell(t1, "fiscalia", i) \o ContextCell(t1, "agencia", i)
                \o ContextCell(t1, "unidad_investigacion", i)], LAMBDA contexto :
    With(Col(t1, "competencia"), LAMBDA c0 :
    With([i \in 1..NRows(t1) |-> IsNA(c0[i]) /\ Search(FederalPat, contexto[i])],
         LAMBDA m_fed :
    With(LocAssign(c0, m_fed, [i \in 1..NRows(t1) |-> CompFederal]), LAMBDA c1 :
    With([i \in 1..NRows(t1) |-> IsNA(c1[i]) /\ Search(LocalPat, contexto[i])],
         LAMBDA m_loc :
    With(LocAssign(c1, m_loc, [i \in 1..NRows(t1) |-> CompLocal]), LAMBDA c2 :
    With(SetCol(t1, "competencia", c2), LAMBDA t2 :
    With(IF HasCol(t2, "alcaldia_hecho")
         THEN [i \in 1..NRows(t1) |->
                 IF IsNA(c2[i])
                 THEN With(GroupRows(t2, "alcaldia_hecho", t2.rows[i]["alcaldia_hecho"]),
                           LAMBDA idx : ModeOfUB([j \in 1..Len(idx) |-> c2[idx[j]]]))
                 ELSE c2[i]]
         ELSE c2, LAMBDA c3 :
    With([i \in 1..NRows(t1) |-> IsNA(c3[i])], LAMBDA m_unk :
    With(LocAssign(c3, m_unk, [i \in 1..NRows(t1) |-> CompDesconocido]), LAMBDA c4 :
        [out |-> SetCol(t2, "competencia", c4),
         stats |-> [desde_tokens_federal |-> CountTrue(m_fed),
                    desde_tokens_local |-> CountTrue(m_loc),
                    rellenos_por_moda_alcaldia |->
                       CountTrue([i \in 1..NRows(t1) |-> IsNA(c2[i])]) - CountTrue(m_unk),
                    asignados_desconocido |-> CountTrue(m_unk)]])))))))))))

RECURSIVE SortedNums(_)
\* the numbers of s in ascending order
SortedNums(s) ==
    IF Len(s) = 0 THEN <<>>
    ELSE LET k == CHOOSE i \in 1..Len(s) : \A j \in 1..Len(s) : s[i] <= s[j]
         IN  <<s[k]>> \o SortedNums([j \in 1..(Len(s) - 1) |-> IF j < k THEN s[j] ELSE s[j + 1]])

\* median() of the non-missing cells: missing for a group without a value
MedianOf(cells) ==
    With(SelectIdx([i \in 1..Len(cells) |-> ~IsNaN(cells[i])], 1, Len(cells)), LAMBDA idx :
    With(SortedNums([j \in 1..Len(idx) |-> cells[idx[j]][1]]), LAMBDA v :
    With(Len(v), LAMBDA n :
        IF n = 0 THEN NaN
        ELSE IF n % 2 = 1 THEN Num(v[(n + 1) \div 2])
        ELSE Num((v[n \div 2] + v[n \div 2 + 1]) \div 2))))

\* out.groupby(by)[c].median() looked up for key k: med[c].get(k)
GroupMedian(t, by, c, k) ==
    IF IsNA(k) THEN NaN
    ELSE With(GroupRows(t, by, k), LAMBDA idx :
            MedianOf([j \in 1..Len(idx) |-> t.rows[idx[j]][c]]))

\* slip: every level reads the area's median
FillFromMedian_AreaOnly(t0, t, by, c) ==
    With(Col(t, c), LAMBDA v :
        SetCol(t, c, LocAssign(v, [i \in 1..NRows(t) |-> IsNaN(v[i])],
                               [i \in 1..NRows(t) |->
                                  GroupMedian(t0, "alcaldia_hecho", c, t.rows[i]["alcaldia_hecho"])])))

\* out.loc[missing, c] = out.loc[missing, by].map(med[c]), medians taken on t0
FillFromMedian(t0, t, by, c) ==
    With(Col(t, c), LAMBDA v :
        SetCol(t, c, LocAssign(v, [i \in 1..NRows(t) |-> IsNaN(v[i])],
                               [i \in 1..NRows(t) |-> GroupMedian(t0, by, c, t.rows[i][by])])))

CountNaN(t, c) == Cardinality({i \in 1..NRows(t) : IsNaN(t.rows[i][c])})

\* fill_latlng_medians(df): groupby raises KeyError on an absent key or
\* coordinate column; otherwise Ok([out, stats])
fill_latlng_medians(t0) ==
    IF \E c \in {"colonia_hecho", "alcaldia_hecho", "latitud", "longitud"} : ~HasCol(t0, c)
    THEN Raise("KeyError")
    ELSE With(LET t1 == FillFromMedian(t0, t0, "colonia_hecho", "latitud")
                  t2 == FillFromMedian(t0, t1, "colonia_hecho", "longitud")
                  t3 == FillFromMedian(t0, t2, "alcaldia_hecho", "latitud")
              IN  FillFromMedian(t0, t3, "alcaldia_hecho", "longitud"), LAMBDA t4 :
             Ok([out |-> t4,
                 stats |-> [lat_na_before |-> CountNaN(t0, "latitud"),
                            lng_na_before |-> CountNaN(t0, "longitud"),
                            lat_na_after |-> CountNaN(t4, "latitud"),
                            lng_na_after |-> CountNaN(t4, "longitud")]]))

\* out.loc[isna & map(med).notna(), c] = out[by].map(med[c]), medians from t0
FillWhereMedian(t0, t, by, c) ==
    With([i \in 1..NRows(t) |-> GroupMedian(t0, by, c, t.rows[i][by])], LAMBDA med :
    With([i \in 1..NRows(t) |-> IsNaN(t.rows[i][c]) /\ ~IsNaN(med[i])], LAMBDA m :
        [out |-> SetCol(t, c, LocAssign(Col(t, c), m, med)), filled |-> CountTrue(m)]))

\* EDA/update_base.py fill_latlng_medians(df): [out, stats]
fill_latlng_medians_ub(t0) ==
    IF ~HasCol(t0, "latitud") \/ ~HasCol(t0, "longitud")
    THEN [out |-> t0,
          stats |-> [lat_desde_colonia |-> 0, lng_desde_colonia |-> 0,
                     lat_desde_alcaldia |-> 0, lng_desde_alcaldia |-> 0]]
    ELSE
    With(IF HasCol(t0, "colonia_hecho")
         THEN With(FillWhereMedian(t0, t0, "colonia_hecho", "latitud"), LAMBDA a :
              With(FillWhereMedian(t0, a.out, "colonia_hecho", "longitud"), LAMBDA b :
                  [out |-> b.out, lat |-> a.filled, lng |-> b.filled]))
         ELSE [out |-> t0, lat |-> 0, lng |-> 0], LAMBDA l1 :
    With(IF HasCol(t0, "alcaldia_hecho")
         THEN With(FillWhereMedian(l1.out, l1.out, "alcaldia_hecho", "latitud"), LAMBDA a :
              With(FillWhereMedian(l1.out, a.out, "alcaldia_hecho", "longitud"), LAMBDA b :
                  [out |-> b.out, lat |-> a.filled, lng |-> b.filled]))
         ELSE [out |-> l1.out, lat |-> 0, lng |-> 0], LAMBDA l2 :
        [out |-> l2.out,
         stats |-> [lat_desde_colonia |-> l1.lat, lng_desde_colonia |-> l1.lng,
                    lat_desde_alcaldia |-> l2.lat, lng_desde_alcaldia |-> l2.lng]]))

\* ------------------------------------------------------- imputation runs
ColRoma == <<U("roma"), SP, U("norte")>>
ColCentro == <<W("centro")>>
AlcX == <<UA("alvaro"), U("obregon")>>
AlcY == <<W("coyoacan")>>

ColoniaTables ==
    {Table(<<"colonia_hecho", "colonia_catalogo">>, r) :
        r \in SeqsUpTo([colonia_hecho : {NA, ColRoma, ColCentro},
                        colonia_catalogo : {NA, ColRoma, ColCentro}], MaxRows)}
    \cup {Table(<<"colonia_hecho">>, r) :
            r \in SeqsUpTo([colonia_hecho : {NA, ColRoma}], MaxRows)}

CompetenciaTables ==
    {Table(<<"competencia", "alcaldia_hecho">>, r) :
        r \in SeqsUpTo([competencia : {NA, TxtEmpty, TxtBlank, CompFederal, CompComun},
                        alcaldia_hecho : {NA, AlcX, AlcY}], MaxRows)}
    \cup {Table(<<"competencia">>, r) :
            r \in SeqsUpTo([competencia : {NA, TxtBlank, CompComun}], MaxRows)}
    \cup {Table(<<"alcaldia_hecho">>, r) :
            r \in SeqsUpTo([alcaldia_hecho : {NA, AlcX}], MaxRows)}

GeoTables ==
    {Table(<<"colonia_hecho", "alcaldia_hecho", "latitud", "longitud">>, r) :
        r \in SeqsUpTo([colonia_hecho : {NA, ColRoma}, alcaldia_hecho : {NA, AlcX},
                        latitud : {NaN, Num(12), Num(20)},
                        longitud : {NaN, Num(-96)}], MaxRows)}

\* batches with the institutional context the token rules read
FiscaliaTables ==
    {Table(<<"competencia", "fiscalia">>, r) :
        r \in SeqsUpTo([competencia : {NA, TxtBlank, CompComun},
                        fiscalia : {NA, <<A("fiscalia"), SP, W("fgr")>>,
                                    <<W("fuero"), A("comun")>>}], MaxRows)}

\* batches where the token rules and the area mode compete for one record
CtxFgr == <<A("fiscalia"), SP, W("fgr")>>
CtxFgjFederal == <<W("fgj"), SP, W("federal")>>
ContextTables ==
    {Table(<<"competencia", "fiscalia", "alcaldia_hecho">>, r) :
        r \in SeqsUpTo([competencia : {NA, CompComun},
                        fiscalia : {NA, CtxFgr, CompComun, CtxFgjFederal},
                        alcaldia_hecho : {NA, AlcX}], MaxRows)}

InitImpute ==
    /\ op = "none"
    /\ df \in ColoniaTables \cup CompetenciaTables \cup GeoTables \cup FiscaliaTables
              \cup ContextTables
    /\ cfg = [alcaldia_col |-> "alcaldia_hecho"]
    /\ fs = Empty
    /\ out = NoTable
    /\ stats = NoStats
    /\ err = "none"
    /\ ruleset = NoRx
    /\ artifacts = NoArtifacts

CrossFillColonias ==
    /\ op = "none"
    /\ \E r \in {cross_fill_colonias(df)} : out' = r.out /\ stats' = r.stats
    /\ df' = copy(df, out')
    /\ op' = "cross_fill_colonias"
    /\ UNCHANGED <<artifacts, cfg, fs, err, ruleset>>

FillCompetencia ==
    /\ op = "none"
    /\ \E r \in {fill_competencia(df, cfg.alcaldia_col)} : out' = r.out /\ stats' = r.stats
    /\ df' = copy(df, out')
    /\ op' = "fill_competencia"
    /\ UNCHANGED <<artifacts, cfg, fs, err, ruleset>>

FillLatLngMedians ==
    /\ op = "none"
    /\ \E r \in {fill_latlng_medians(df)} :
          IF r.ok THEN out' = r.value.out /\ stats' = r.value.stats /\ err' = "none"
          ELSE err' = r.error /\ UNCHANGED <<out, stats>>
    /\ df' = copy(df, out')
    /\ op' = "fill_latlng_medians"
    /\ UNCHANGED <<artifacts, cfg, fs, ruleset>>

\* EDA/update_base.py fill_competencia(df)
FillCompetenciaUB ==
    /\ op = "none"
    /\ \E r \in {fill_competencia_ub(df)} : out' = r.out /\ stats' = r.stats
    /\ df' = copy(df, out')
    /\ op' = "fill_competencia_ub"
    /\ UNCHANGED <<artifacts, cfg, fs, err, ruleset>>

\* EDA/update_base.py fill_latlng_medians(df)
FillLatLngMediansUB ==
    /\ op = "none"
    /\ \E r \in {fill_latlng_medians_ub(df)} : out' = r.out /\ stats' = r.stats
    /\ df' = copy(df, out')
    /\ op' = "fill_latlng_medians_ub"
    /\ UNCHANGED <<artifacts, cfg, fs, err, ruleset>>

\* cross_fill_colonias applied to its own result; artifacts.first keeps the
\* counts of the first application
CrossFillColoniasAgain ==
    /\ op = "cross_fill_colonias"
    /\ \E r \in {cross_fill_colonias(out)} : out' = r.out /\ stats' = r.stats
    /\ df' = copy(out, out')
    /\ artifacts' = [first |-> stats]
    /\ op' = "cross_fill_colonias_again"
    /\ UNCHANGED <<cfg, fs, err, ruleset>>

NextImpute ==
    \/ CrossFillColonias \/ FillCompetencia \/ FillLatLngMedians \/ FillCompetenciaUB
    \/ FillLatLngMediansUB \/ CrossFillColoniasAgain

SpecImpute == InitImpute /\ [][NextImpute]_vars

\* -------------------------------------------------------- imputation claims
KeptWhere(c, present(_)) ==
    HasCol(df, c) =>
       \A i \in 1..NRows(df) : present(df.rows[i][c]) => out.rows[i][c] = df.rows[i][c]

\* C4 as stated: cross_fill_colonias, fill_competencia and fill_latlng_medians
\* leave every target cell that was non-missing before the call unchanged.
C4_PresentNeverOverwritten ==
    /\ op = "cross_fill_colonias" =>
          /\ KeptWhere("colonia_hecho", LAMBDA x : ~IsNA(x))
          /\ KeptWhere("colonia_catalogo", LAMBDA x : ~IsNA(x))
    /\ op = "fill_competencia" => KeptWhere("competencia", LAMBDA x : ~IsNA(x))
    /\ (op = "fill_latlng_medians" /\ err = "none") =>
          /\ KeptWhere("latitud", LAMBDA x : ~IsNaN(x))
          /\ KeptWhere("longitud", LAMBDA x : ~IsNaN(x))

\* C4 (amended): the same, where for fill_competencia a cell that holds only
\* whitespace (or the empty string) counts as missing and is filled.
C4_PresentNonBlankNeverOverwritten ==
    /\ op = "cross_fill_colonias" =>
          /\ KeptWhere("colonia_hecho", LAMBDA x : ~IsNA(x))
          /\ KeptWhere("colonia_catalogo", LAMBDA x : ~IsNA(x))
    /\ op = "fill_competencia" =>
          KeptWhere("competencia", LAMBDA x : ~IsNA(x) /\ ~IsBlank(x))
    /\ (op = "fill_latlng_medians" /\ err = "none") =>
          /\ KeptWhere("latitud", LAMBDA x : ~IsNaN(x))
          /\ KeptWhere("longitud", LAMBDA x : ~IsNaN(x))

\* fill_competencia kept a present value and filled a missing one beside it
C4_Witness ==
    /\ op = "fill_competencia"
    /\ HasCol(df, "competencia")
    /\ \E i, j \in 1..NRows(df) :
          /\ df.rows[i]["competencia"] = CompComun /\ out.rows[i]["competencia"] = CompComun
          /\ IsNA(df.rows[j]["competencia"]) /\ out.rows[j]["competencia"] = CompComun

\* the sentinel of the variant that ran
SentinelOf(o) == IF o = "fill_competencia" THEN CompUnknown ELSE CompDesconocido

\* C16: after fill_competencia no record has a missing jurisdiction value,
\* also when the jurisdiction column or the area column is absent; where
\* neither a token rule nor an area mode can supply a value - no
\* jurisdiction column and no area column - every record holds the sentinel.
C16_CompetenciaFullyPopulated ==
    op \in {"fill_competencia", "fill_competencia_ub"} =>
       /\ HasCol(out, "competencia")
       /\ NRows(out) = NRows(df)
       /\ \A i \in 1..NRows(out) : ~IsNA(out.rows[i]["competencia"])
       /\ (~HasCol(df, "competencia") /\ ~HasCol(df, "alcaldia_hecho")) =>
             \A i \in 1..NRows(out) : out.rows[i]["competencia"] = SentinelOf(op)

\* a batch without a jurisdiction column was filled with DESCONOCIDO
C16_Witness ==
    /\ op = "fill_competencia_ub"
    /\ ~HasCol(df, "competencia")
    /\ NRows(df) > 0
    /\ \A i \in 1..NRows(out) : out.rows[i]["competencia"] = CompDesconocido

\* ------------------------------------------------------------ calendar
\* A date cell is a timestamp (year, month, day, hour of day), a text that
\* does not parse, or missing.  NaT is the missing timestamp.
Stamp(y, m, d, h) == [k |-> "ts", y |-> y, m |-> m, d |-> d, h |-> h]
NaT == [k |-> "nat", y |-> 0, m |-> 0, d |-> 0, h |-> 0]
BadDate == [k |-> "bad", y |-> 0, m |-> 0, d |-> 0, h |-> 0]
NoDate == [k |-> "na", y |-> 0, m |-> 0, d |-> 0, h |-> 0]

IsLeap(y) == (y % 4 = 0 /\ y % 100 # 0) \/ y % 400 = 0

DaysInMonth(y, m) ==
    IF m = 2 THEN (IF IsLeap(y) THEN 29 ELSE 28)
    ELSE IF m \in {4, 6, 9, 11} THEN 30 ELSE 31

RECURSIVE DaysBeforeMonth(_, _)
DaysBeforeMonth(y, m) ==
    IF m = 1 THEN 0 ELSE DaysBeforeMonth(y, m - 1) + DaysInMonth(y, m - 1)

\* leap days of the years 1..y
LeapsThrough(y) == (y \div 4) - (y \div 100) + (y \div 400)

\* days from 1970-01-01 to the date of the timestamp
DayNumber(t) ==
    365 * (t.y - 1970) + (LeapsThrough(t.y - 1) - LeapsThrough(1969))
       + DaysBeforeMonth(t.y, t.m) + (t.d - 1)

\* the timestamp as hours from the epoch (datetime64 arithmetic)
Hours(t) == 24 * DayNumber(t) + t.h

Abs(x) == IF x < 0 THEN 0 - x ELSE x

\* (a - b).abs().dt.days: whole days of the absolute difference
AbsDays(a, b) == Abs(Hours(a) - Hours(b)) \div 24

\* pd.to_datetime(s, errors="coerce"): the time of day is kept
to_datetime(c) == IF c.k = "ts" THEN c ELSE NaT

\* dt.normalize(): midnight of the same date
Normalize(t) == IF t.k = "ts" THEN [t EXCEPT !.h = 0] ELSE t

\* EDA/update_base.py _parse_date_flex: parse, then normalize
_parse_date_flex(c) == Normalize(to_datetime(c))

\* dt + MonthEnd(0): last day of dt's month, at dt's time of day
MonthEnd0(t) == [t EXCEPT !.d = DaysInMonth(t.y, t.m)]

\* dt + MonthEnd(-1): last day of the month before, at dt's time of day
MonthEndPrev(t) ==
    IF t.m = 1 THEN [t EXCEPT !.y = t.y - 1, !.m = 12, !.d = 31]
    ELSE [t EXCEPT !.m = t.m - 1, !.d = DaysInMonth(t.y, t.m - 1)]

\* (first_dom + Timedelta(days=14)).dt.normalize()
Day15(t) == [t EXCEPT !.d = 15, !.h = 0]

Min3(a, b, c) == IF a <= b /\ a <= c THEN a ELSE IF b <= c THEN b ELSE c

\* dist.min(axis=1) for one parsed timestamp
Nearest(dt) ==
    Min3(AbsDays(dt, Day15(dt)), AbsDays(dt, MonthEnd0(dt)), AbsDays(dt, MonthEndPrev(dt)))

\* the same labelling without fillna(False) and with a comparison that
\* leaves a missing distance missing
WindowLabel_KeepsMissing(dt, w, in_label, out_label) ==
    IF dt.k # "ts" THEN NoLabel
    ELSE IF Nearest(dt) <= w THEN in_label ELSE out_label

\* (nearest <= window_days).fillna(False).map({True: in_label, False: out_label})
WindowLabel(dt, w, in_label, out_label) ==
    IF dt.k = "ts" /\ Nearest(dt) <= w THEN in_label ELSE out_label

\* app/EDA/user_eda.py add_quincena_window(df, date_col, window_days)
add_quincena_window(t, date_col, w) ==
    IF ~HasCol(t, date_col) THEN Raise("KeyError")
    ELSE Ok(SetCol(t, "quincena_window",
                   [i \in 1..NRows(t) |->
                      WindowLabel(to_datetime(t.rows[i][date_col]), w, "WINDOW", "NO_WINDOW")]))

\* EDA/update_base.py add_quincena_window(df, date_col, window_days)
add_quincena_window_ub(t, date_col, w) ==
    IF ~HasCol(t, date_col) THEN Raise("KeyError")
    ELSE Ok(SetCol(t, "quincena",
                   [i \in 1..NRows(t) |->
                      WindowLabel(_parse_date_flex(t.rows[i][date_col]), w,
                                  "Ventana", "No_ventana")]))

\* dt.dt.weekday: Monday = 0; 1970-01-01 was a Thursday
Weekday(dt) == (DayNumber(dt) + 3) % 7

WeekdayNames ==
    <<"Lunes", "Martes", "Miércoles", "Jueves", "Viernes", "Sábado", "Domingo">>

\* app/EDA/user_eda.py add_weekday_features(df, date_col)
add_weekday_features(t, date_col) ==
    IF ~HasCol(t, date_col) THEN Raise("KeyError")
    ELSE LET dt == [i \in 1..NRows(t) |-> to_datetime(t.rows[i][date_col])]
             t1 == SetCol(t, "weekday_num",
                          [i \in 1..NRows(t) |->
                             IF dt[i].k = "ts" THEN Num(Weekday(dt[i]) + 1) ELSE NaN])
         IN  Ok(SetCol(t1, "weekday",
                       [i \in 1..NRows(t) |->
                          IF dt[i].k = "ts" THEN WeekdayNames[Weekday(dt[i]) + 1]
                          ELSE NoLabel]))

\* --------------------------------------------------------- calendar runs
Years == {2023, 2024}
HoursOfDay == {0, 10}

DateCells ==
    {Stamp(y, m, d, h) : y \in Years, m \in 1..12, d \in 1..31, h \in HoursOfDay}
       \cap {c \in [k : {"ts"}, y : Years, m : 1..12, d : 1..31, h : HoursOfDay] :
               c.d <= DaysInMonth(c.y, c.m)}

\* one incident date beside a record whose date does not parse, or a batch
\* without the date column
DateTables ==
    {Table(<<"fecha_hecho">>, <<[fecha_hecho |-> c], [fecha_hecho |-> BadDate]>>) :
        c \in DateCells \cup {BadDate, NoDate}}
    \cup {Table(<<"delito">>, <<[delito |-> TxtDog]>>)}

InitQuincena ==
    /\ op = "none"
    /\ df \in DateTables
    /\ \E w \in 0..MaxWindow : cfg = [date_col |-> "fecha_hecho", quincena_window |-> w]
    /\ fs = Empty
    /\ out = NoTable
    /\ stats = NoStats
    /\ err = "none"
    /\ ruleset = NoRx
    /\ artifacts = NoArtifacts

Returned(r) ==
    IF r.ok THEN out' = r.value /\ err' = "none" ELSE err' = r.error /\ UNCHANGED out

AddQuincenaWindow ==
    /\ op = "none"
    /\ Returned(add_quincena_window(df, cfg.date_col, cfg.quincena_window))
    /\ df' = copy(df, out')
    /\ op' = "add_quincena_window"
    /\ UNCHANGED <<artifacts, cfg, fs, stats, ruleset>>

AddQuincenaWindowUB ==
    /\ op = "none"
    /\ Returned(add_quincena_window_ub(df, cfg.date_col, cfg.quincena_window))
    /\ df' = copy(df, out')
    /\ op' = "add_quincena_window_ub"
    /\ UNCHANGED <<artifacts, cfg, fs, stats, ruleset>>

AddWeekdayFeatures ==
    /\ op = "none"
    /\ Returned(add_weekday_features(df, cfg.date_col))
    /\ df' = copy(df, out')
    /\ op' = "add_weekday_features"
    /\ UNCHANGED <<artifacts, cfg, fs, stats, ruleset>>

NextQuincena == AddQuincenaWindow \/ AddQuincenaWindowUB \/ AddWeekdayFeatures

SpecQuincena == InitQuincena /\ [][NextQuincena]_vars

\* ------------------------------------------------------- calendar claims
\* distance in days between the dates of two timestamps
DateDist(a, b) == Abs(DayNumber(a) - DayNumber(b))

\* distance in days from a date to the nearest of: the 15th of its month,
\* its month's last day, the previous month's last day
AnchorDist(c) ==
    Min3(DateDist(c, Day15(c)), DateDist(c, MonthEnd0(c)), DateDist(c, MonthEndPrev(c)))

InWindowAt(i) ==
    \/ op = "add_quincena_window" /\ out.rows[i]["quincena_window"] = "WINDOW"
    \/ op = "add_quincena_window_ub" /\ out.rows[i]["quincena"] = "Ventana"

\* C5: for every parseable incident date and threshold w, add_quincena_window
\* (both implementations) labels the record in-window iff the least day
\* distance from the date to the 15th of its month, its month's last day and
\* the previous month's last day is at most w.
C5_InWindowIffNearAnchor ==
    (op \in {"add_quincena_window", "add_quincena_window_ub"} /\ err = "none") =>
       \A i \in 1..NRows(df) :
          df.rows[i]["fecha_hecho"].k = "ts" =>
             (InWindowAt(i) <=> AnchorDist(df.rows[i]["fecha_hecho"]) <= cfg.quincena_window)

\* the label add_quincena_window wrote for record i, and its out label
WindowLabelAt(i) ==
    IF op = "add_quincena_window" THEN out.rows[i]["quincena_window"]
    ELSE out.rows[i]["quincena"]

OutLabel == IF op = "add_quincena_window" THEN "NO_WINDOW" ELSE "No_ventana"

Unparseable(c) == c.k \in {"bad", "na"}

\* C17: on a batch that has the date column, add_quincena_window (both
\* implementations) does not raise, and every record whose date is missing
\* or does not parse carries the out label: not missing, not in-window.
C17_UnparseableDateIsOutOfWindow ==
    (op \in {"add_quincena_window", "add_quincena_window_ub"} /\ HasCol(df, cfg.date_col)) =>
       /\ err = "none"
       /\ \A i \in 1..NRows(df) :
             Unparseable(df.rows[i][cfg.date_col]) => WindowLabelAt(i) = OutLabel

C17_Witness ==
    /\ op = "add_quincena_window_ub"
    /\ err = "none"
    /\ HasCol(df, cfg.date_col)
    /\ df.rows[1][cfg.date_col] = NoDate
    /\ df.rows[2][cfg.date_col] = BadDate
    /\ out.rows[1]["quincena"] = "No_ventana"
    /\ out.rows[2]["quincena"] = "No_ventana"
    /\ cfg.quincena_window = MaxWindow

\* ------------------------------------------- weather (app/EDA/user_eda)
\* A data file on disk: the table pd.read_csv returns for it.
CsvFile(t) == [kind |-> "csv", table |-> t]

\* robust_read_csv(path): every encoding fails on an absent or unreadable file
robust_read_csv(file) == IF file.kind = "csv" THEN Ok(file.table) ELSE Raise("ValueError")

\* astype("string").str.strip()
StripText(x) ==
    IF IsNA(x) \/ \A k \in 1..Len(x) : x[k] = SP THEN (IF IsNA(x) THEN NA ELSE <<>>)
    ELSE LET a == CHOOSE i \in 1..Len(x) : x[i] # SP /\ \A j \in 1..(i - 1) : x[j] = SP
             b == CHOOSE i \in 1..Len(x) : x[i] # SP /\ \A j \in (i + 1)..Len(x) : x[j] = SP
         IN  SubSeq(x, a, b)

\* pd.to_datetime(...).dt.strftime("%Y-%m-%d"): the date without its time
DateKey(c) == Normalize(to_datetime(c))

RECURSIVE LeftJoin(_, _, _, _)
\* merge(how="left"): every left row once per matching right row, in left
\* order, or once with missing right cells; equal keys match, missing ones too
LeftJoin(left, right, i, blank) ==
    IF i > Len(left) THEN <<>>
    ELSE LET hits == SelectIdx([j \in 1..Len(right) |->
                                  /\ right[j]["name_key"] = left[i]["alcaldia_key"]
                                  /\ right[j]["date_key"] = left[i]["date_key"]],
                               1, Len(right))
             rows == IF Len(hits) = 0 THEN <<blank @@ left[i]>>
                     ELSE [n \in 1..Len(hits) |->
                             [c \in DOMAIN blank |-> right[hits[n]][c]] @@ left[i]]
         IN  rows \o LeftJoin(left, right, i + 1, blank)

\* add_weather_by_alcaldia_fecha(df, clima_csv_path, alcaldia_col, date_col)
add_weather_by_alcaldia_fecha(t, file, alcaldia_col, date_col) ==
    With(robust_read_csv(file), LAMBDA rd :
    IF ~rd.ok THEN Raise(rd.error)
    ELSE
    With(rd.value, LAMBDA clima :
    IF \E c \in {"name", "datetime", "temp", "conditions"} : ~HasCol(clima, c)
    THEN Raise("KeyError")
    ELSE IF ~HasCol(t, alcaldia_col) \/ ~HasCol(t, date_col) THEN Raise("KeyError")
    \* merge renames a column both sides have to clima_temp_x / clima_temp_y,
    \* and out[out_temp] of the statistics then finds no column
    ELSE IF HasCol(t, "clima_temp") THEN Raise("KeyError")
    ELSE
    With(LET right == [j \in 1..NRows(clima) |->
                         [name_key |-> norm_series(clima.rows[j]["name"]),
                          date_key |-> DateKey(clima.rows[j]["datetime"]),
                          clima_temp |-> clima.rows[j]["temp"],
                          clima_conditions |-> StripText(clima.rows[j]["conditions"])]]
             left == [i \in 1..NRows(t) |->
                         [alcaldia_key |-> norm_series(t.rows[i][alcaldia_col]),
                          date_key |-> DateKey(t.rows[i][date_col])] @@ t.rows[i]]
             joined == LeftJoin(left, right, 1, [clima_temp |-> NaN, clima_conditions |-> NA])
             merged == Table(t.cols \o <<"alcaldia_key", "date_key", "clima_temp",
                                         "clima_conditions">>, joined)
         IN  DropCol(merged, "alcaldia_key"), LAMBDA res :
    With(NRows(res) - CountNaN(res, "clima_temp"), LAMBDA matched :
        Ok([out |-> res,
            stats |-> [matched |-> matched, unmatched |-> NRows(res) - matched,
                       total |-> NRows(res)]])))))

\* run_eda: the bucket of a weather condition
ClimaBucket(x) ==
    IF IsNA(x) THEN NoLabel
    ELSE IF \E k \in 1..Len(x) : x[k].w = "rain" THEN "Rain"
    ELSE IF \E k \in 1..Len(x) : x[k].w \in {"sun", "clear", "partly"} THEN "Sunny"
    ELSE NoLabel

\* ------------------------------------ orchestrator (app/EDA/eda_pipeline)
\* pd.crosstab(a, b): how many rows carry each pair of labels
Crosstab(t, a, b) == CountBy([i \in 1..NRows(t) |-> <<t.rows[i][a], t.rows[i][b]>>])

\* run_eda(df, cfg) with the files of `files` on disk: Ok([out, stats,
\* artifacts]) or the exception that leaves the call.  Batches are non-empty.
run_eda(t0, c, files) ==
    With(cross_fill_colonias(t0), LAMBDA s1 :
    With(fill_competencia(s1.out, c.alcaldia_col), LAMBDA s2 :
    With(classify_regex(s2.out, c.regex_path, files.rules), LAMBDA s3 :
    With(add_weekday_features(s3.out, c.date_col), LAMBDA s4 :
    IF ~s4.ok THEN Raise(s4.error)
    ELSE
    With(add_quincena_window(s4.value, c.date_col, c.quincena_window), LAMBDA s5 :
    IF ~s5.ok THEN Raise(s5.error)
    ELSE
    With(fill_latlng_medians(s5.value), LAMBDA s6 :
    IF ~s6.ok THEN Raise(s6.error)
    ELSE
    With(c.with_weather /\ c.weather_path # "", LAMBDA clima :
    With(IF clima
         THEN add_weather_by_alcaldia_fecha(s6.value.out, files.weather,
                                            c.alcaldia_col, c.date_col)
         ELSE Ok([out |-> s6.value.out, stats |-> NoStats]), LAMBDA s7 :
    IF ~s7.ok THEN Raise(s7.error)
    ELSE
    With(IF clima
         THEN SetCol(s7.value.out, "clima_bucket",
                     [i \in 1..NRows(s7.value.out) |->
                        ClimaBucket(s7.value.out.rows[i]["clima_conditions"])])
         ELSE s7.value.out, LAMBDA t7 :
    With([colonias |-> s1.stats, competencia |-> s2.stats,
          clasificacion |-> s3.stats, latlng |-> s6.value.stats], LAMBDA st :
        Ok([out |-> t7,
            stats |-> IF clima THEN [clima |-> s7.value.stats] @@ st ELSE st,
            rx |-> s3.rx,
            artifacts |->
               [figs |-> [macrogroup_bar |-> s3.stats.macrogroup_pct],
                tables |->
                   [macro_vs_grupo |-> Crosstab(t7, "delito_grupo_macro", "delito_grupo"),
                    grupo_vs_violencia |-> Crosstab(t7, "delito_grupo", "violencia_class"),
                    grupo_vs_pasajero |-> Crosstab(t7, "delito_grupo", "robo_pasajero")]]])
    ))))))))))

\* --------------------------------------------------- orchestrator runs
WeatherPath == "clima"

WeatherDaily ==
    CsvFile(Table(<<"name", "datetime", "temp", "conditions">>,
       <<[name |-> <<U("alvaro"), SP, U("obregon")>>, datetime |-> Stamp(2024, 3, 14, 0),
          temp |-> Num(21), conditions |-> <<U("rain"), W("overcast"), SP>>],
         [name |-> <<W("coyoacan")>>, datetime |-> Stamp(2024, 3, 14, 0),
          temp |-> Num(24), conditions |-> <<W("clear")>>]>>))

\* two readings for one place and day
WeatherTwice ==
    CsvFile(Table(<<"name", "datetime", "temp", "conditions">>,
       <<[name |-> AlcX, datetime |-> Stamp(2024, 3, 14, 0),
          temp |-> Num(21), conditions |-> <<W("overcast")>>],
         [name |-> AlcX, datetime |-> Stamp(2024, 3, 14, 10),
          temp |-> Num(25), conditions |-> NA]>>))

WeatherNoTemp ==
    CsvFile(Table(<<"name", "datetime", "conditions">>,
       <<[name |-> AlcX, datetime |-> Stamp(2024, 3, 14, 0), conditions |-> <<W("clear")>>]>>))

WeatherFiles == {MissingFile, WeatherDaily, WeatherTwice, WeatherNoTemp}

IncidentCols ==
    <<"delito", "fecha_hecho", "colonia_hecho", "alcaldia_hecho", "latitud", "longitud">>

Incident(delito, fecha, colonia, alcaldia, lat, lng) ==
    [delito |-> delito, fecha_hecho |-> fecha, colonia_hecho |-> colonia,
     alcaldia_hecho |-> alcaldia, latitud |-> lat, longitud |-> lng]

SampleIncidents ==
    {Incident(TxtTaxi, Stamp(2024, 3, 14, 0), ColRoma, AlcX, Num(12), Num(-96)),
     Incident(TxtCatDog, Stamp(2024, 3, 20, 10), ColRoma, AlcX, NaN, NaN),
     Incident(NA, BadDate, NA, AlcY, Num(20), NaN)}

\* raw batches: one to MaxRows incidents, or a batch without a date column
RawBatches ==
    {Table(IncidentCols, r) : r \in SeqsUpTo(SampleIncidents, MaxRows) \ {<<>>}}
    \cup {Table(<<"delito">>, <<[delito |-> TxtDog]>>)}

RunRulesetFiles ==
    {MissingFile, GarbageFile, YamlCatDog, YamlNoOrderKey, YamlOrderUndefined,
     YamlEmptyPatterns, JamFull, JamPartial}

QuincenaChoices == {0, 2}

InitRunEda ==
    /\ op = "none"
    /\ df \in RawBatches
    /\ \E p \in {NoPath, RulesPath}, f \in RunRulesetFiles, ww \in BOOLEAN,
          wp \in {"", WeatherPath}, wf \in WeatherFiles, w \in QuincenaChoices :
          /\ p = NoPath => f = MissingFile
          /\ wp = "" => wf = MissingFile
          /\ ~ww => wp = ""
          /\ cfg = [date_col |-> "fecha_hecho", alcaldia_col |-> "alcaldia_hecho",
                    quincena_window |-> w, with_weather |-> ww, weather_path |-> wp,
                    regex_path |-> p]
          /\ fs = [rules |-> f, weather |-> wf]
    /\ out = NoTable
    /\ stats = NoStats
    /\ err = "none"
    /\ ruleset = NoRx
    /\ artifacts = NoArtifacts

\* app/EDA/eda_pipeline.py run_eda(df, cfg)
RunEda ==
    /\ op = "none"
    /\ \E r \in {run_eda(df, cfg, fs)} :
          IF r.ok
          THEN /\ out' = r.value.out
               /\ stats' = r.value.stats
               /\ ruleset' = r.value.rx
               /\ artifacts' = r.value.artifacts
               /\ err' = "none"
          ELSE /\ err' = r.error
               /\ UNCHANGED <<out, stats, ruleset, artifacts>>
    /\ df' = copy(df, out')
    /\ op' = "run_eda"
    /\ UNCHANGED <<cfg, fs>>

\* EDA/regex_loader.py classify_regex on the same batch and ruleset path
RunClassifyJam ==
    /\ op = "none"
    /\ \E r \in {classify_regex_jam(df, cfg.regex_path, fs.rules)} :
          IF r.ok
          THEN /\ out' = r.value.out
               /\ stats' = r.value.stats
               /\ ruleset' = r.value.rx
               /\ err' = "none"
          ELSE /\ err' = r.error
               /\ UNCHANGED <<out, stats, ruleset>>
    /\ df' = copy(df, out')
    /\ op' = "classify_regex_jam"
    /\ UNCHANGED <<artifacts, cfg, fs>>

\* run_eda(out, cfg): the cleaned batch of a run is given to run_eda again
RunEdaAgain ==
    /\ op \in {"run_eda", "run_eda_again"}
    /\ err = "none"
    /\ \E r \in {run_eda(out, cfg, fs)} :
          IF r.ok
          THEN /\ out' = r.value.out
               /\ stats' = r.value.stats
               /\ ruleset' = r.value.rx
               /\ artifacts' = r.value.artifacts
               /\ err' = "none"
          ELSE /\ err' = r.error
               /\ UNCHANGED <<out, stats, ruleset, artifacts>>
    /\ df' = copy(out, out')
    /\ op' = "run_eda_again"
    /\ UNCHANGED <<cfg, fs>>

NextRunEda == RunEda \/ RunClassifyJam \/ RunEdaAgain

SpecRunEda == InitRunEda /\ [][NextRunEda]_vars

\* --------------------------------------------------- orchestrator claims
\* the file at the ruleset path cannot be loaded as a ruleset
RulesetUnusable == ~load_regex_config(fs.rules).ok

\* the file at the ruleset path is unreadable or lacks a group of GROUP_ORDER
JamRulesetUnusable ==
    \/ ~load_regex_config_jam(fs.rules).ok
    \/ \E i \in 1..Len(GROUP_ORDER) :
          GROUP_ORDER[i] \notin DOMAIN load_regex_config_jam(fs.rules).value

\* C8: when a ruleset path is supplied and the ruleset is malformed or
\* unreadable, the run aborts with an error that reaches the caller; it never
\* returns a classified batch.
C8_RulesetErrorsFatal ==
    /\ (op = "run_eda" /\ cfg.regex_path # NoPath /\ RulesetUnusable) =>
          (err # "none" /\ out = NoTable)
    /\ (op = "classify_regex_jam" /\ JamRulesetUnusable) =>
          (err # "none" /\ out = NoTable)

\* weather enrichment was asked for and the weather file is absent or lacks
\* one of its four columns
WeatherMalformed ==
    /\ cfg.with_weather /\ cfg.weather_path # ""
    /\ \/ ~robust_read_csv(fs.weather).ok
       \/ \E c \in {"name", "datetime", "temp", "conditions"} :
             ~HasCol(robust_read_csv(fs.weather).value, c)

\* C12: a raw batch lacking columns a step expects never halts run_eda: the
\* run completes without raising; only a ruleset-configuration error or a
\* malformed weather source aborts it.
C12_MissingColumnsNeverHalt ==
    (op = "run_eda" /\ err # "none") =>
       \/ cfg.regex_path # NoPath /\ RulesetUnusable
       \/ WeatherMalformed

\* C14: for every run of run_eda, with or without weather enrichment and for
\* any weather table, the cleaned batch has at most as many rows as the raw
\* batch.
C14_RowsNeverAdded ==
    (op = "run_eda" /\ err = "none") => NRows(out) <= NRows(df)

SumCounts(counts) == SumOver(counts, DOMAIN counts)

\* C20: whenever run_eda returns, every row of the cleaned table has a value
\* in delito_grupo_macro, and the classification statistics satisfy
\* sum(group_counts) = sum(macrogroup_counts) = n_total = rows of the batch;
\* macrogroup_counts is non-empty when the batch is.
C20_MacroColumnAndTotals ==
    (op \in {"run_eda", "run_eda_again"} /\ err = "none") =>
       /\ HasCol(out, "delito_grupo_macro")
       /\ \A i \in 1..NRows(out) : out.rows[i]["delito_grupo_macro"] # NoLabel
       /\ SumCounts(stats.clasificacion.group_counts) = NRows(df)
       /\ SumCounts(stats.clasificacion.macrogroup_counts) = NRows(df)
       /\ stats.clasificacion.n_total = NRows(df)
       /\ NRows(df) > 0 => DOMAIN stats.clasificacion.macrogroup_counts # {}

\* two incidents of one macro-category were cleaned
C20_Witness ==
    /\ op = "run_eda"
    /\ err = "none"
    /\ NRows(df) = MaxRows
    /\ \E m \in DOMAIN stats.clasificacion.macrogroup_counts :
          stats.clasificacion.macrogroup_counts[m] = MaxRows
    /\ SumCounts(stats.clasificacion.group_counts) = MaxRows

\* --------------------------------------- merge (app/EDA/update_base.py)
\* the column names of the tables, as sorted() orders them
ColumnOrder ==
    <<"alcaldia_catalogo", "alcaldia_hecho", "clase_violencia", "clima_bucket",
      "clima_condicion", "clima_conditions", "clima_temp", "clima_temperatura",
      "colonia_catalogo", "colonia_hecho", "competencia", "date_key", "delito",
      "delito_grupo", "delito_grupo_macro", "dia_hecho", "dia_hecho_num", "fecha_hecho",
      "folio", "id", "latitud", "longitud", "quincena_window", "region_cdmx",
      "robo_pasajero", "sector", "violencia_class", "weekday", "weekday_num">>

\* sorted(S) for a set S of column names
SortedCols(S) == SelectSeq(ColumnOrder, LAMBDA c : c \in S)

TextCols ==
    {"alcaldia_catalogo", "alcaldia_hecho", "clima_conditions", "colonia_catalogo",
     "colonia_hecho", "competencia", "delito", "sector"}
NumCols ==
    {"clima_temp", "clima_temperatura", "dia_hecho_num", "folio", "id", "latitud",
     "longitud", "weekday_num"}
DateCols == {"date_key", "fecha_hecho"}

\* the missing cell (NaN) as a column of that kind holds it
MissingOf(c) ==
    IF c \in TextCols THEN NA
    ELSE IF c \in NumCols THEN NaN
    ELSE IF c \in DateCols THEN NoDate
    ELSE NoLabel

\* df.reindex(columns=cols): columns the table lacks are filled with missing
Reindex(t, cols) ==
    Table(cols, [i \in 1..NRows(t) |->
                   [c \in Range(cols) |->
                      IF HasCol(t, c) THEN t.rows[i][c] ELSE MissingOf(c)]])

\* slip: the new batch is put before the historical rows
Concat_BatchFirst(a, b) == Table(a.cols, b.rows \o a.rows)

\* pd.concat([a, b], ignore_index=True) of two tables with the same columns
Concat(a, b) == Table(a.cols, a.rows \o b.rows)

KeyOf(row, ids) == [k \in 1..Len(ids) |-> row[ids[k]]]

\* slip: keep="first"
drop_duplicates_KeepFirst(t, ids) ==
    LET keep == [i \in 1..NRows(t) |->
                   ~\E j \in 1..(i - 1) : KeyOf(t.rows[j], ids) = KeyOf(t.rows[i], ids)]
        idx == SelectIdx(keep, 1, NRows(t))
    IN  Table(t.cols, [n \in 1..Len(idx) |-> t.rows[idx[n]]])

\* drop_duplicates(subset=ids, keep="last").reset_index(drop=True)
drop_duplicates(t, ids) ==
    LET keep == [i \in 1..NRows(t) |->
                   ~\E j \in (i + 1)..NRows(t) : KeyOf(t.rows[j], ids) = KeyOf(t.rows[i], ids)]
        idx == SelectIdx(keep, 1, NRows(t))
    IN  Table(t.cols, [n \in 1..Len(idx) |-> t.rows[idx[n]]])

MasterPath == "data/master.csv"
NewRawPath == "data/nuevos.csv"
OutCsv == "out/combined.csv"
OutBare == "combined.csv"
OutXlsx == "out/combined.xlsx"

\* path.lower().endswith(...)
Extension(path) == IF path = OutXlsx THEN "xlsx" ELSE "csv"

\* os.path.dirname(path)
Dirname(path) ==
    IF path = OutBare THEN ""
    ELSE IF path \in {MasterPath, NewRawPath} THEN "data" ELSE "out"

\* _read_any(path) with the files of `files` on disk
_read_any(path, files) ==
    IF Extension(path) \notin {"csv", "parquet"} THEN Raise("ValueError")
    ELSE IF path \notin DOMAIN files \/ files[path].kind # "csv" THEN Raise("FileNotFoundError")
    ELSE Ok(files[path].table)

\* df.to_csv(path, index=False) as pd.read_csv gives it back: a missing cell
\* and an empty string are both written as an empty field
to_csv(t) ==
    CsvFile(Table(t.cols, [i \in 1..NRows(t) |->
                             [c \in DOMAIN t.rows[i] |->
                                IF c \in TextCols /\ t.rows[i][c] = <<>> THEN NA
                                ELSE t.rows[i][c]]]))

\* _write_any(df, path): the files after the write
_write_any(t, path, files) ==
    IF Extension(path) \notin {"csv", "parquet"} THEN Raise("ValueError")
    ELSE Ok((path :> to_csv(t)) @@ files)

\* slip: the loop over id_cols (lines 73-77) is left out, and the rows are
\* deduplicated on the id columns the combined table does have
update_master_base_SkipsMissingIds(c, files) ==
    With(c.id_cols, LAMBDA id_cols :
    With(_read_any(c.master_path, files), LAMBDA rm :
    IF ~rm.ok THEN Raise(rm.error)
    ELSE
    With(_read_any(c.new_raw_path, files), LAMBDA rn :
    IF ~rn.ok THEN Raise(rn.error)
    ELSE
    With(rm.value, LAMBDA master_df :
    With(run_eda(rn.value, c, files), LAMBDA eda :
    IF ~eda.ok THEN Raise(eda.error)
    ELSE
    With(eda.value.out, LAMBDA new_clean_df :
    With(SortedCols(Range(master_df.cols) \cup Range(new_clean_df.cols)), LAMBDA all_cols :
    With(Concat(Reindex(master_df, all_cols), Reindex(new_clean_df, all_cols)),
         LAMBDA combined :
    With(IF Len(id_cols) > 0
         THEN drop_duplicates(combined, SelectSeq(id_cols, LAMBDA x : HasCol(combined, x)))
         ELSE combined, LAMBDA final :
    With(IF c.output_path = NoPath THEN c.master_path ELSE c.output_path,
         LAMBDA output_path :
    IF c.output_path # NoPath /\ Dirname(c.output_path) = "" THEN Raise("FileNotFoundError")
    ELSE
    With(_write_any(final, output_path, files), LAMBDA wr :
    IF ~wr.ok THEN Raise(wr.error)
    ELSE Ok([info |-> [master_rows_before |-> NRows(master_df),
                       new_raw_rows |-> NRows(rn.value),
                       new_clean_rows |-> NRows(new_clean_df),
                       combined_rows_before_dedup |-> NRows(combined),
                       combined_rows_after_dedup |-> NRows(final),
                       n_rows_added_effective |-> NRows(final) - NRows(master_df),
                       id_cols |-> id_cols,
                       eda_stats |-> eda.value.stats,
                       output_path |-> output_path],
             files |-> wr.value,
             master_df |-> master_df,
             new_clean_df |-> new_clean_df,
             combined |-> combined,
             final |-> final])
    )))))))))))

\* update_master_base from line 59 on, with master_df and new_raw_df read:
\* Ok([info, files, master_df, new_clean_df, combined (before dedup), final])
MergeAndWrite(master_df, new_raw_df, c, files) ==
    With(c.id_cols, LAMBDA id_cols :
    With(run_eda(new_raw_df, c, files), LAMBDA eda :
    IF ~eda.ok THEN Raise(eda.error)
    ELSE
    With(eda.value.out, LAMBDA new_clean_df :
    With(SortedCols(Range(master_df.cols) \cup Range(new_clean_df.cols)), LAMBDA all_cols :
    With(Concat(Reindex(master_df, all_cols), Reindex(new_clean_df, all_cols)),
         LAMBDA combined :
    IF \E k \in 1..Len(id_cols) : ~HasCol(combined, id_cols[k]) THEN Raise("KeyError")
    ELSE
    With(IF Len(id_cols) > 0 THEN drop_duplicates(combined, id_cols) ELSE combined,
         LAMBDA final :
    With(IF c.output_path = NoPath THEN c.master_path ELSE c.output_path,
         LAMBDA output_path :
    IF c.output_path # NoPath /\ Dirname(c.output_path) = "" THEN Raise("FileNotFoundError")
    ELSE
    With(_write_any(final, output_path, files), LAMBDA wr :
    IF ~wr.ok THEN Raise(wr.error)
    ELSE Ok([info |-> [master_rows_before |-> NRows(master_df),
                       new_raw_rows |-> NRows(new_raw_df),
                       new_clean_rows |-> NRows(new_clean_df),
                       combined_rows_before_dedup |-> NRows(combined),
                       combined_rows_after_dedup |-> NRows(final),
                       n_rows_added_effective |-> NRows(final) - NRows(master_df),
                       id_cols |-> id_cols,
                       eda_stats |-> eda.value.stats,
                       output_path |-> output_path],
             files |-> wr.value,
             master_df |-> master_df,
             new_clean_df |-> new_clean_df,
             combined |-> combined,
             final |-> final])
    ))))))))

\* update_master_base(master_path, new_raw_path, output_path, cfg): both
\* files are read (lines 56-57), then the batch is cleaned, merged and written
update_master_base(c, files) ==
    With(_read_any(c.master_path, files), LAMBDA rm :
    IF ~rm.ok THEN Raise(rm.error)
    ELSE
    With(_read_any(c.new_raw_path, files), LAMBDA rn :
    IF ~rn.ok THEN Raise(rn.error)
    ELSE MergeAndWrite(rm.value, rn.value, c, files)))

\* ------------------------------------------------------------ merge runs
SectorN == <<W("norte")>>
SectorS == <<W("sur")>>

MasterCols == <<"id", "delito_grupo", "sector">>

MasterRows ==
    {[id |-> Num(1), delito_grupo |-> "A", sector |-> SectorN],
     [id |-> Num(1), delito_grupo |-> "OTHER", sector |-> SectorS],
     [id |-> Num(2), delito_grupo |-> "B", sector |-> SectorN]}

\* a store written before the key column existed
MasterWithoutKey ==
    Table(<<"delito_grupo", "sector">>,
          <<[delito_grupo |-> "A", sector |-> SectorN],
            [delito_grupo |-> "B", sector |-> SectorS]>>)

MasterTables ==
    {Table(MasterCols, r) : r \in SeqsUpTo(MasterRows, MaxMasterRows)} \cup {MasterWithoutKey}

KeyedIncident(id, rec) == [id |-> id] @@ rec

NewRows ==
    {KeyedIncident(Num(1), Incident(TxtDog, Stamp(2024, 3, 14, 0), ColRoma, AlcX, Num(12), Num(-96))),
     KeyedIncident(Num(2), Incident(TxtCatDog, Stamp(2024, 3, 20, 10), ColRoma, AlcX, NaN, NaN)),
     KeyedIncident(NaN, Incident(TxtEmpty, BadDate, NA, AlcY, Num(20), NaN)),
     KeyedIncident(Num(1), Incident(TxtCatDog, Stamp(2024, 3, 20, 10), ColCentro, AlcY, Num(20), Num(-96)))}

\* the uploaded file: one to MaxRows keyed incidents, a file without a date
\* column, or no file at all
NewRawFiles ==
    {CsvFile(Table(<<"id">> \o IncidentCols, r)) : r \in SeqsUpTo(NewRows, MaxRows) \ {<<>>}}
    \cup {CsvFile(Table(<<"id", "delito">>, <<[id |-> Num(1), delito |-> TxtDog]>>)),
          MissingFile}

IdColChoices == {<<>>, <<"id">>, <<"id", "sector">>, <<"folio">>}

InitMerge ==
    /\ op = "none"
    /\ df = NoTable
    /\ \E m \in MasterTables, n \in NewRawFiles, ids \in IdColChoices,
          o \in {NoPath, OutCsv, OutBare, OutXlsx} :
          /\ cfg = [master_path |-> MasterPath, new_raw_path |-> NewRawPath,
                    output_path |-> o, id_cols |-> ids,
                    date_col |-> "fecha_hecho", alcaldia_col |-> "alcaldia_hecho",
                    quincena_window |-> 2, with_weather |-> FALSE, weather_path |-> "",
                    regex_path |-> RulesPath]
          /\ fs = (MasterPath :> CsvFile(m)) @@ (NewRawPath :> n)
                     @@ [rules |-> YamlCatDog, weather |-> MissingFile]
    /\ out = NoTable
    /\ stats = NoStats
    /\ err = "none"
    /\ ruleset = NoRx
    /\ artifacts = NoArtifacts

\* app/EDA/update_base.py update_master_base(master_path, new_raw_path, output_path, cfg)
UpdateMasterBase ==
    /\ op = "none"
    /\ \E r \in {update_master_base(cfg, fs)} :
          IF r.ok
          THEN /\ out' = r.value.final
               /\ stats' = r.value.info
               /\ fs' = r.value.files
               /\ artifacts' = [master_df |-> r.value.master_df,
                                new_clean_df |-> r.value.new_clean_df,
                                combined |-> r.value.combined]
               /\ err' = "none"
          ELSE /\ err' = r.error
               /\ UNCHANGED <<out, stats, fs, artifacts>>
    /\ op' = "update_master_base"
    /\ UNCHANGED <<df, cfg, ruleset>>

NextMerge == UpdateMasterBase

SpecMerge == InitMerge /\ [][NextMerge]_vars

\* ---------------------------------------------------------- merge claims
Merged == op = "update_master_base" /\ err = "none"

\* the rows of table t whose key columns equal those of row r
SameKey(t, r) == {i \in 1..NRows(t) : KeyOf(t.rows[i], cfg.id_cols) = KeyOf(r, cfg.id_cols)}

Last(S) == CHOOSE i \in S : \A j \in S : j <= i

\* C6: with id_cols supplied, for every key tuple of the concatenated table
\* exactly one row with that key survives, and it is the last occurrence in
\* concatenation order; so when a historical row and a new-batch row share a
\* key, the survivor carries the new-batch row's values.
C6_DedupKeepsLast ==
    (Merged /\ Len(cfg.id_cols) > 0) =>
       LET before == artifacts.combined
           nm == NRows(artifacts.master_df)
       IN  /\ \A i \in 1..NRows(before) :
                 /\ Cardinality(SameKey(out, before.rows[i])) = 1
                 /\ \A s \in SameKey(out, before.rows[i]) :
                       out.rows[s] = before.rows[Last(SameKey(before, before.rows[i]))]
           /\ \A i \in 1..nm : \A j \in (nm + 1)..NRows(before) :
                 KeyOf(before.rows[i], cfg.id_cols) = KeyOf(before.rows[j], cfg.id_cols)
                    => \A s \in SameKey(out, before.rows[i]) :
                          \E n \in (nm + 1)..NRows(before) : out.rows[s] = before.rows[n]
           /\ \A s \in 1..NRows(out) : SameKey(before, out.rows[s]) # {}

\* a historical row and a new-batch row shared a key and the new one survived
C6_Witness ==
    /\ Merged
    /\ cfg.id_cols = <<"id">>
    /\ HasCol(artifacts.master_df, "id")
    /\ \E i \in 1..NRows(artifacts.master_df) :
          /\ artifacts.master_df.rows[i]["id"] = Num(1)
          /\ artifacts.master_df.rows[i]["sector"] = SectorN
    /\ \E s \in 1..NRows(out) :
          /\ out.rows[s]["id"] = Num(1)
          /\ out.rows[s]["delito"] = TxtDog
          /\ IsNA(out.rows[s]["sector"])
    /\ NRows(out) < NRows(artifacts.combined)

\* position of a column name in sorted order
Rank(c) == CHOOSE k \in 1..Len(ColumnOrder) : ColumnOrder[k] = c

\* C7: the combined table's columns are the sorted union of the historical
\* table's and the cleaned batch's columns, cells of columns a table lacked
\* are missing, historical rows precede new-batch rows, and the row count
\* before deduplication is len(historical) + len(new_clean).
C7_MergeIsColumnUnion ==
    Merged =>
       LET m == artifacts.master_df
           n == artifacts.new_clean_df
           cb == artifacts.combined
       IN  /\ Range(cb.cols) = Range(m.cols) \cup Range(n.cols)
           /\ \A i, j \in 1..Len(cb.cols) : i < j => Rank(cb.cols[i]) < Rank(cb.cols[j])
           /\ out.cols = cb.cols
           /\ NRows(cb) = NRows(m) + NRows(n)
           /\ stats.combined_rows_before_dedup = NRows(m) + NRows(n)
           /\ \A i \in 1..NRows(m) : \A c \in Range(cb.cols) :
                 cb.rows[i][c] = IF HasCol(m, c) THEN m.rows[i][c] ELSE MissingOf(c)
           /\ \A i \in 1..NRows(n) : \A c \in Range(cb.cols) :
                 cb.rows[NRows(m) + i][c] = IF HasCol(n, c) THEN n.rows[i][c] ELSE MissingOf(c)

\* a historical table with a column the batch lacks was merged with a batch
\* carrying columns the historical table lacks
C7_Witness ==
    /\ Merged
    /\ Len(cfg.id_cols) = 0
    /\ NRows(artifacts.master_df) > 0 /\ NRows(artifacts.new_clean_df) > 0
    /\ out.rows[1]["sector"] = SectorN /\ IsNaN(out.rows[1]["latitud"])
    /\ IsNA(out.rows[NRows(out)]["sector"]) /\ out.rows[NRows(out)]["latitud"] = Num(12)

\* both files were read and the batch went through run_eda
BatchCleaned ==
    /\ fs[MasterPath].kind = "csv"
    /\ fs[NewRawPath].kind = "csv"
    /\ run_eda(fs[NewRawPath].table, cfg, fs).ok

\* the columns of the combined table: those of the master and of the cleaned batch
CombinedCols ==
    Range(fs[MasterPath].table.cols)
        \cup Range(run_eda(fs[NewRawPath].table, cfg, fs).value.out.cols)

\* id_cols names a column the combined table lacks
IdColMissing ==
    BatchCleaned /\ \E k \in 1..Len(cfg.id_cols) : cfg.id_cols[k] \notin CombinedCols

\* C13: when id_cols names a column that the combined table lacks,
\* update_master_base raises KeyError before deduplicating, and no file -
\* master or output - is written.
C13_MissingIdColumnWritesNothing ==
    [][(op' = "update_master_base" /\ IdColMissing) =>
          (err' = "KeyError" /\ fs' = fs /\ out' = NoTable)]_vars

\* a run with id_cols = [folio] on a batch that run_eda cleaned was refused
C13_Witness ==
    /\ op = "update_master_base"
    /\ cfg.id_cols = <<"folio">>
    /\ IdColMissing
    /\ err = "KeyError"

\* ---------------------------------------------------- idempotence claims
\* cell v of column c holds no value
IsMissingCell(c, v) ==
    IF c \in DateCols THEN v.k \in {"na", "nat"} ELSE v = MissingOf(c)

\* an already-cleaned batch: no missing value and no two equal rows
AlreadyClean(t) ==
    /\ \A i \in 1..NRows(t) : \A c \in Range(t.cols) : ~IsMissingCell(c, t.rows[i][c])
    /\ \A i, j \in 1..NRows(t) : t.rows[i] = t.rows[j] => i = j

\* the statistics of a run report that nothing was filled
ZeroFills(st) ==
    /\ st.colonias.filled_hecho_from_catalogo = 0
    /\ st.colonias.filled_catalogo_from_hecho = 0
    /\ st.latlng.lat_na_before = 0 /\ st.latlng.lat_na_after = 0
    /\ st.latlng.lng_na_before = 0 /\ st.latlng.lng_na_after = 0

\* C15: run_eda given its own output for an already-cleaned batch (no missing
\* value, no duplicate row) returns a table equal to its input, and its
\* statistics report zero filled values.
C15_RunEdaIdempotent ==
    (op = "run_eda_again" /\ AlreadyClean(df)) =>
       (err = "none" /\ out = df /\ ZeroFills(stats))

\* ------------------------------------ upload pipeline (EDA/update_base.py)
\* s.value_counts(dropna=True).index[0]: the most frequent value, the one
\* seen first among equals
MostFrequent(vals) ==
    LET n(i) == Cardinality({j \in 1..Len(vals) : vals[j] = vals[i]})
        best == CHOOSE i \in 1..Len(vals) :
                   /\ \A j \in 1..Len(vals) : n(j) <= n(i)
                   /\ \A j \in 1..(i - 1) : n(j) < n(i)
    IN  vals[best]

\* _strict_map(df, src, tgt): [map, ambiguous]; the map sends a normalised
\* source to its raw target for the sources with one normalised target
_strict_map(t, src, tgt) ==
    With(SelectIdx([i \in 1..NRows(t) |-> ~IsNA(t.rows[i][src]) /\ ~IsNA(t.rows[i][tgt])],
                   1, NRows(t)), LAMBDA sub :
    With([j \in 1..Len(sub) |-> norm_series_upper(t.rows[sub[j]][src])], LAMBDA src_norm :
    With([k \in Range(src_norm) |->
            {norm_series_upper(t.rows[sub[j]][tgt]) :
                j \in {x \in 1..Len(sub) : src_norm[x] = k}}], LAMBDA distinct :
        [map |-> [k \in {x \in Range(src_norm) : Cardinality(distinct[x]) = 1} |->
                    With(SelectIdx([j \in 1..Len(sub) |-> src_norm[j] = k], 1, Len(sub)),
                         LAMBDA idx :
                            MostFrequent([n \in 1..Len(idx) |-> t.rows[sub[idx[n]]][tgt]]))],
         ambiguous |-> Cardinality({x \in Range(src_norm) : Cardinality(distinct[x]) > 1})])))

\* EDA/update_base.py cross_fill_colonias(df): [out, stats]
cross_fill_colonias_ub(t) ==
    IF ~HasCol(t, "colonia_hecho") \/ ~HasCol(t, "colonia_catalogo")
    THEN [out |-> t,
          stats |-> [catalogo_desde_hecho |-> 0, hecho_desde_catalogo |-> 0,
                     fuentes_ambiguas_hecho |-> 0, fuentes_ambiguas_catalogo |-> 0]]
    ELSE
    With(_strict_map(t, "colonia_hecho", "colonia_catalogo"), LAMBDA h2c :
    With(_strict_map(t, "colonia_catalogo", "colonia_hecho"), LAMBDA c2h :
    With([i \in 1..NRows(t) |-> norm_series_upper(t.rows[i]["colonia_hecho"])], LAMBDA h_norm :
    With([i \in 1..NRows(t) |-> norm_series_upper(t.rows[i]["colonia_catalogo"])],
         LAMBDA c_norm :
    With([i \in 1..NRows(t) |->
            IsNA(t.rows[i]["colonia_catalogo"]) /\ h_norm[i] \in DOMAIN h2c.map], LAMBDA m1 :
    With([i \in 1..NRows(t) |->
            IsNA(t.rows[i]["colonia_hecho"]) /\ c_norm[i] \in DOMAIN c2h.map], LAMBDA m2 :
        [out |-> SetCol(SetCol(t, "colonia_catalogo",
                               [i \in 1..NRows(t) |->
                                  IF m1[i] THEN h2c.map[h_norm[i]]
                                  ELSE t.rows[i]["colonia_catalogo"]]),
                        "colonia_hecho",
                        [i \in 1..NRows(t) |->
                           IF m2[i] THEN c2h.map[c_norm[i]] ELSE t.rows[i]["colonia_hecho"]]),
         stats |-> [catalogo_desde_hecho |-> CountTrue(m1),
                    hecho_desde_catalogo |-> CountTrue(m2),
                    fuentes_ambiguas_hecho |-> h2c.ambiguous,
                    fuentes_ambiguas_catalogo |-> c2h.ambiguous]]))))))

\* df[col].isna().mean() >= threshold for threshold = 0.95, in whole numbers
AtLeastThreshold(missing, rows) == rows > 0 /\ 20 * missing >= 19 * rows

\* preview_drop_sparse(df, col, threshold=0.95): [out, info]
preview_drop_sparse(t, c) ==
    IF ~HasCol(t, c) THEN [out |-> t, info |-> [se_eliminaria |-> 0]]
    ELSE IF AtLeastThreshold(Cardinality({i \in 1..NRows(t) : IsNA(t.rows[i][c])}), NRows(t))
    THEN [out |-> DropCol(t, c), info |-> [se_eliminaria |-> 1]]
    ELSE [out |-> t, info |-> [se_eliminaria |-> 0]]

NombresDias ==
    <<"LUNES", "MARTES", "MIERCOLES", "JUEVES", "VIERNES", "SABADO", "DOMINGO">>

\* EDA/update_base.py add_weekday_features(df, name_col, num_col)
add_weekday_features_ub(t, date_col, name_col, num_col) ==
    With([i \in 1..NRows(t) |-> _parse_date_flex(t.rows[i][date_col])], LAMBDA dt :
        SetCol(SetCol(t, num_col,
                      [i \in 1..NRows(t) |->
                         IF dt[i].k = "ts" THEN Num(Weekday(dt[i]) + 1) ELSE NaN]),
               name_col,
               [i \in 1..NRows(t) |->
                  IF dt[i].k = "ts" THEN NombresDias[Weekday(dt[i]) + 1] ELSE NoLabel]))

\* str.strip().str.split().str[0]: the first word, missing when there is none
FirstWord(x) ==
    IF IsNA(x) \/ \A k \in 1..Len(x) : x[k] = SP THEN NA
    ELSE <<x[CHOOSE i \in 1..Len(x) : x[i] # SP /\ \A j \in 1..(i - 1) : x[j] = SP]>>

\* EDA/update_base.py add_weather_by_alcaldia_fecha(df, clima_csv_path)
add_weather_ub(t, file) ==
    With(robust_read_csv(file), LAMBDA rd :
    IF ~rd.ok THEN Raise("RuntimeError")
    ELSE
    With(rd.value, LAMBDA clima :
    IF \E c \in {"name", "datetime", "temp", "conditions"} : ~HasCol(clima, c)
    THEN Raise("KeyError")
    ELSE IF ~HasCol(t, "alcaldia_hecho") \/ ~HasCol(t, "fecha_hecho") THEN Raise("KeyError")
    ELSE IF HasCol(t, "clima_temperatura") THEN Raise("KeyError")
    ELSE
    With(LET right == [j \in 1..NRows(clima) |->
                         [name_key |-> norm_series_upper(clima.rows[j]["name"]),
                          date_key |-> DateKey(clima.rows[j]["datetime"]),
                          clima_temperatura |-> clima.rows[j]["temp"],
                          clima_condicion |-> FirstWord(clima.rows[j]["conditions"])]]
             left == [i \in 1..NRows(t) |->
                         [alcaldia_key |-> norm_series_upper(t.rows[i]["alcaldia_hecho"]),
                          date_key |-> DateKey(t.rows[i]["fecha_hecho"])] @@ t.rows[i]]
             joined == LeftJoin(left, right, 1,
                                  [clima_temperatura |-> NaN, clima_condicion |-> NA])
             merged == Table(t.cols \o <<"alcaldia_key", "date_key", "clima_temperatura",
                                         "clima_condicion">>, joined)
         IN  DropCol(merged, "alcaldia_key"), LAMBDA res :
    With(NRows(res) - CountNaN(res, "clima_temperatura"), LAMBDA con :
        Ok([out |-> DropCol(res, "date_key"),
            stats |-> [registros_con_clima |-> con,
                       registros_sin_clima |-> NRows(res) - con]])))))

\* run_eda_for_upload._map_weather on the lower-cased first word
_map_weather(x) ==
    IF IsNA(x) THEN NoLabel
    ELSE IF x[1].w \in {"rain", "snow"} THEN "Lluvia"
    ELSE IF x[1].w \in {"clear", "overcast", "partly", "partial"} THEN "Soleado"
    ELSE NoLabel

\* REGIONES_NORM: the words of each borough name, lower case, no accents
REGIONES_NORM ==
    [Centro |-> {<<"cuauhtemoc">>, <<"benito", "juarez">>, <<"venustiano", "carranza">>},
     Norte |-> {<<"gustavo", "a.", "madero">>, <<"azcapotzalco">>},
     Sur |-> {<<"coyoacan">>, <<"tlalpan">>, <<"xochimilco">>, <<"magdalena", "contreras">>,
              <<"la", "magdalena", "contreras">>},
     Oriente |-> {<<"iztapalapa">>, <<"iztacalco">>, <<"tlahuac">>, <<"milpa", "alta">>},
     Poniente |-> {<<"miguel", "hidalgo">>, <<"alvaro", "obregon">>, <<"cuajimalpa">>,
                   <<"cuajimalpa", "de", "morelos">>}]

\* _norm_simple(s): str(s).strip().lower() without accents; inner whitespace stays
_norm_simple(x) == SeqMap(LAMBDA t : t.w, StripText(x))

\* asignar_region(alcaldia)
asignar_region(x) ==
    IF IsNA(x) THEN NoLabel
    ELSE IF \E r \in DOMAIN REGIONES_NORM : _norm_simple(x) \in REGIONES_NORM[r]
    THEN CHOOSE r \in DOMAIN REGIONES_NORM : _norm_simple(x) \in REGIONES_NORM[r]
    ELSE "Desconocido"

\* df.drop(columns=cols, errors="ignore")
DropCols(t, cols) ==
    Table(SelectSeq(t.cols, LAMBDA x : x \notin cols),
          [i \in 1..NRows(t) |-> [x \in (DOMAIN t.rows[i]) \ cols |-> t.rows[i][x]]])

\* df.drop_duplicates(keep="first").reset_index(drop=True) over all columns
DropExactDuplicates(t) ==
    With(SelectIdx([i \in 1..NRows(t) |-> ~\E j \in 1..(i - 1) : t.rows[j] = t.rows[i]],
                   1, NRows(t)), LAMBDA idx :
        Table(t.cols, [n \in 1..Len(idx) |-> t.rows[idx[n]]]))

\* ------------------------------------ upload pipeline (EDA/eda_pipeline.py)
\* the calendar step of run_eda_for_upload, taken when the batch has fecha_hecho
CalendarFeatures(t) ==
    IF ~HasCol(t, "fecha_hecho") THEN t
    ELSE With(add_weekday_features_ub(t, "fecha_hecho", "dia_hecho", "dia_hecho_num"),
              LAMBDA wk :
            SetCol(wk, "quincena_window",
                   [i \in 1..NRows(wk) |->
                      WindowLabel(_parse_date_flex(wk.rows[i]["fecha_hecho"]), 2,
                                  "Ventana", "No_ventana")]))

\* the steps of run_eda_for_upload after the weather join: condition and
\* region labels, the sparse-column preview, the drops and the exact
\* deduplication.  The batches carry no mes_inicio, mes_hecho or hora_hecho
\* column, so the steps guarded by them are not taken.
FinishUpload(t) ==
    With(IF HasCol(t, "clima_condicion")
         THEN SetCol(t, "clima_condicion",
                     [i \in 1..NRows(t) |-> _map_weather(t.rows[i]["clima_condicion"])])
         ELSE t, LAMBDA t1 :
    With(IF HasCol(t1, "alcaldia_hecho")
         THEN SetCol(t1, "region_cdmx",
                     [i \in 1..NRows(t1) |-> asignar_region(t1.rows[i]["alcaldia_hecho"])])
         ELSE t1, LAMBDA t2 :
    With(preview_drop_sparse(t2, "alcaldia_catalogo"), LAMBDA sp :
    With(DropCols(sp.out, {"alcaldia_catalogo", "hora_inicio", "violencia_class",
                           "robo_pasajero"}), LAMBDA t3 :
    With(DropExactDuplicates(t3), LAMBDA t4 :
        [out |-> t4,
         sparse |-> sp.info,
         deduplicacion |-> [rows_before |-> NRows(t3), rows_after |-> NRows(t4),
                            dropped_exact_dups |-> NRows(t3) - NRows(t4)]])))))

\* run_eda_for_upload(df_raw, clima_csv_path, regex_config_path) with the
\* files of `files` on disk: Ok([out, stats]) or the exception leaving it
run_eda_for_upload(df_raw, clima_csv_path, regex_config_path, files) ==
    With(cross_fill_colonias_ub(df_raw), LAMBDA s1 :
    With(fill_competencia_ub(s1.out), LAMBDA s2 :
    With(classify_regex_jam(s2.out, regex_config_path, files.rules), LAMBDA s3 :
    IF ~s3.ok THEN Raise(s3.error)
    ELSE
    With(fill_latlng_medians_ub(CalendarFeatures(s3.value.out)), LAMBDA s5 :
    With(IF clima_csv_path # NoPath THEN add_weather_ub(s5.out, files.weather)
         ELSE Ok([out |-> s5.out,
                  stats |-> [weather_enriched |-> FALSE, registros_con_clima |-> 0,
                             registros_sin_clima |-> NRows(s5.out)]]), LAMBDA s6 :
    IF ~s6.ok THEN Raise(s6.error)
    ELSE
    With(FinishUpload(s6.value.out), LAMBDA fin :
        Ok([out |-> fin.out,
            stats |-> [shape_inicial |-> <<NRows(df_raw), Len(df_raw.cols)>>,
                       cross_fill_colonias |-> s1.stats,
                       fill_competencia |-> s2.stats,
                       regex |-> s3.value.stats,
                       latlng |-> s5.stats,
                       clima |-> s6.value.stats,
                       alcaldia_catalogo_sparse |-> fin.sparse,
                       deduplicacion |-> fin.deduplicacion,
                       shape_final |-> <<NRows(fin.out), Len(fin.out.cols)>>]])))))))

\* --------------------------------------- upload page (Dashboard/pagina4.py)
\* the entry of st.cache_data for load_master_df: empty until the first call
NoCache == [hit |-> FALSE, value |-> NoTable]

\* load_master_df() under @st.cache_data: pd.read_csv(DB_PATH) on the first
\* call of the process, the cached table on every later one
load_master_df(cache, files) ==
    IF cache.hit THEN cache ELSE [hit |-> TRUE, value |-> files[MasterPath].table]

\* main() with a file uploaded, the overwrite confirmed and the button
\* pressed: Ok([cache, files, nuevos_clean, combined]) or the exception that
\* ends the script run; the cache entry made by load_master_df stays
main(cache, nuevos_raw, clima_csv, files) ==
    With(load_master_df(cache, files), LAMBDA loaded :
    IF files.jam.kind = "missing" THEN Raise("return")
    ELSE
    With(run_eda_for_upload(nuevos_raw, clima_csv, RulesPath,
                            [rules |-> files.jam, weather |-> files.weather]), LAMBDA eda :
    IF ~eda.ok THEN Raise(eda.error)
    ELSE
    With(eda.value.out, LAMBDA nuevos_clean :
    With(SortedCols(Range(loaded.value.cols) \cup Range(nuevos_clean.cols)), LAMBDA all_cols :
    With(Concat(Reindex(loaded.value, all_cols), Reindex(nuevos_clean, all_cols)),
         LAMBDA combined :
        Ok([cache |-> loaded,
            files |-> (MasterPath :> to_csv(combined)) @@ files,
            nuevos_clean |-> nuevos_clean,
            stats |-> eda.value.stats,
            combined |-> combined]))))))

\* ------------------------------------------------------------ store runs
MaxSaves == 2

\* the batches a user has at hand: single incidents, and one without a date
StoreBatches ==
    {Table(<<"id">> \o IncidentCols,
           <<KeyedIncident(Num(1), Incident(TxtDog, Stamp(2024, 3, 14, 0), ColRoma, AlcX,
                                            Num(12), Num(-96)))>>),
     Table(<<"id">> \o IncidentCols,
           <<KeyedIncident(Num(2), Incident(TxtCatDog, Stamp(2024, 3, 20, 10), ColCentro, AlcY,
                                            NaN, NaN))>>),
     Table(<<"id", "delito">>, <<[id |-> Num(3), delito |-> TxtDog]>>)}

\* artifacts.saved lists the cleaned batches saved over the store so far and
\* artifacts.base is the store as the process found it
InitStore ==
    /\ op = "none"
    /\ df = NoTable
    /\ \E m \in {Table(MasterCols, r) : r \in SeqsUpTo(MasterRows, 1)}, uc \in BOOLEAN :
          /\ cfg = [master_path |-> MasterPath, new_raw_path |-> NewRawPath,
                    output_path |-> NoPath, id_cols |-> <<>>,
                    date_col |-> "fecha_hecho", alcaldia_col |-> "alcaldia_hecho",
                    quincena_window |-> 2, with_weather |-> FALSE, weather_path |-> "",
                    regex_path |-> RulesPath, usar_clima |-> uc]
          /\ fs = (MasterPath :> CsvFile(m)) @@ (NewRawPath :> MissingFile)
                     @@ [rules |-> YamlCatDog, weather |-> WeatherDaily, jam |-> JamFull]
          /\ artifacts = [cache |-> NoCache, saved |-> <<>>, base |-> m]
    /\ out = NoTable
    /\ stats = NoStats
    /\ err = "none"
    /\ ruleset = NoRx

\* update_master_base(master_path, new_raw_path) on a batch put at new_raw_path
SaveByUpdateMasterBase ==
    /\ Len(artifacts.saved) < MaxSaves
    /\ \E b \in StoreBatches :
          /\ df' = b
          /\ \E r \in {update_master_base(cfg, (NewRawPath :> CsvFile(b)) @@ fs)} :
                IF r.ok
                THEN /\ out' = r.value.final
                     /\ stats' = r.value.info
                     /\ fs' = r.value.files
                     /\ artifacts' = [artifacts EXCEPT
                                         !.saved = Append(@, r.value.new_clean_df)]
                     /\ err' = "none"
                ELSE /\ err' = r.error
                     /\ fs' = (NewRawPath :> CsvFile(b)) @@ fs
                     /\ UNCHANGED <<out, stats, artifacts>>
    /\ op' = "update_master_base"
    /\ UNCHANGED <<cfg, ruleset>>

\* Dashboard/pagina4.py main(): a batch is uploaded and the combined table is
\* saved over the store with "Sobrescribir base maestra"
PageOverwrite ==
    /\ Len(artifacts.saved) < MaxSaves
    /\ \E b \in StoreBatches :
          /\ df' = b
          /\ \E r \in {main(artifacts.cache, b,
                            IF cfg.usar_clima THEN WeatherPath ELSE NoPath, fs)} :
                IF r.ok
                THEN /\ out' = r.value.combined
                     /\ stats' = r.value.stats
                     /\ fs' = r.value.files
                     /\ artifacts' = [artifacts EXCEPT
                                         !.cache = r.value.cache,
                                         !.saved = Append(@, r.value.nuevos_clean)]
                     /\ err' = "none"
                ELSE /\ err' = r.error
                     /\ artifacts' = [artifacts EXCEPT
                                         !.cache = load_master_df(artifacts.cache, fs)]
                     /\ UNCHANGED <<out, stats, fs>>
    /\ op' = "main"
    /\ UNCHANGED <<cfg, ruleset>>

NextStore == SaveByUpdateMasterBase \/ PageOverwrite

SpecStore == InitStore /\ [][NextStore]_vars

\* ------------------------------------------------------------ store claims
Store == fs[MasterPath].table

\* every row of a saved batch is a row of the store, as a CSV file holds it
StoreHolds(batch) ==
    /\ Range(batch.cols) \subseteq Range(Store.cols)
    /\ \A i \in 1..NRows(batch) : \E n \in 1..NRows(Store) :
          \A c \in Range(batch.cols) : Store.rows[n][c] = to_csv(batch).table.rows[i][c]

RECURSIVE RowsOf(_, _)
RowsOf(tables, k) == IF k = 0 THEN 0 ELSE NRows(tables[k]) + RowsOf(tables, k - 1)

\* C21: after any sequence of saves over the store - update_master_base
\* with output_path omitted, or the upload page's overwrite - the store holds
\* the rows it started with and the rows of every batch saved so far.
C21_AppendIsCumulative ==
    /\ \A k \in 1..Len(artifacts.saved) : StoreHolds(artifacts.saved[k])
    /\ NRows(Store) = NRows(artifacts.base) + RowsOf(artifacts.saved, Len(artifacts.saved))

\* ------------------------------------- concurrent merges (update_base.py)
Procs == {1, 2}

NewRawPath2 == "data/nuevos2.csv"

RawPathOf == <<NewRawPath, NewRawPath2>>

\* slip: the master is read again when the combined table is built
master_df_ReadAgain(snapshot, files) == files[MasterPath].table

\* master_df at line 63: the table read at line 56, whatever the file holds by now
master_df(snapshot, files) == snapshot

Idle == [pc |-> "start", master_df |-> NoTable, new_raw_df |-> NoTable,
         new_clean_df |-> NoTable, final |-> NoTable]

\* two invocations of update_master_base on one master file, each with its
\* own batch file; artifacts.log lists the reads and writes in their order
InitRace ==
    /\ op = "none"
    /\ df = NoTable
    /\ \E m \in {Table(MasterCols, r) : r \in SeqsUpTo(MasterRows, 1)},
          ids \in {<<>>, <<"id">>},
          n1 \in StoreBatches, n2 \in StoreBatches :
          /\ n1 # n2
          /\ cfg = [master_path |-> MasterPath, new_raw_path |-> NewRawPath,
                    output_path |-> NoPath, id_cols |-> ids,
                    date_col |-> "fecha_hecho", alcaldia_col |-> "alcaldia_hecho",
                    quincena_window |-> 2, with_weather |-> FALSE, weather_path |-> "",
                    regex_path |-> RulesPath]
          /\ fs = (MasterPath :> CsvFile(m)) @@ (NewRawPath :> CsvFile(n1))
                     @@ (NewRawPath2 :> CsvFile(n2))
                     @@ [rules |-> YamlCatDog, weather |-> MissingFile]
    /\ artifacts = [calls |-> [p \in Procs |-> Idle], log |-> <<>>]
    /\ out = NoTable
    /\ stats = NoStats
    /\ err = "none"
    /\ ruleset = NoRx

\* update_master_base lines 56-57 in invocation p
ReadBases(p) ==
    /\ artifacts.calls[p].pc = "start"
    /\ \E rm \in {_read_any(cfg.master_path, fs)}, rn \in {_read_any(RawPathOf[p], fs)} :
          IF rm.ok /\ rn.ok
          THEN /\ artifacts' = [artifacts EXCEPT
                                   !.calls[p].pc = "read",
                                   !.calls[p].master_df = rm.value,
                                   !.calls[p].new_raw_df = rn.value,
                                   !.log = Append(@, <<"read", p>>)]
               /\ err' = "none"
          ELSE /\ artifacts' = [artifacts EXCEPT !.calls[p].pc = "raised"]
               /\ err' = IF rm.ok THEN rn.error ELSE rm.error
    /\ op' = "_read_any"
    /\ UNCHANGED <<df, cfg, fs, out, stats, ruleset>>

\* update_master_base lines 60-105 in invocation p
CleanMergeWrite(p) ==
    /\ artifacts.calls[p].pc = "read"
    /\ \E r \in {MergeAndWrite(master_df(artifacts.calls[p].master_df, fs),
                               artifacts.calls[p].new_raw_df, cfg, fs)} :
          IF r.ok
          THEN /\ out' = r.value.final
               /\ stats' = r.value.info
               /\ fs' = r.value.files
               /\ artifacts' = [artifacts EXCEPT
                                   !.calls[p].pc = "done",
                                   !.calls[p].new_clean_df = r.value.new_clean_df,
                                   !.calls[p].final = r.value.final,
                                   !.log = Append(@, <<"write", p>>)]
               /\ err' = "none"
          ELSE /\ err' = r.error
               /\ artifacts' = [artifacts EXCEPT !.calls[p].pc = "raised"]
               /\ UNCHANGED <<out, stats, fs>>
    /\ op' = "update_master_base"
    /\ UNCHANGED <<df, cfg, ruleset>>

NextRace == \E p \in Procs : ReadBases(p) \/ CleanMergeWrite(p)

SpecRace == InitRace /\ [][NextRace]_vars

\* ------------------------------------------------ concurrent merge claims
\* both invocations read the master before either wrote, and both wrote
Interleaved ==
    /\ Len(artifacts.log) = 4
    /\ artifacts.log[1][1] = "read" /\ artifacts.log[2][1] = "read"

LastWriter == artifacts.log[4][2]

\* no row of the store carries the values of a row of the batch
StoreLacks(batch) ==
    \A i \in 1..NRows(batch) : \A n \in 1..NRows(Store) :
       \E c \in Range(batch.cols) :
          ~HasCol(Store, c) \/ Store.rows[n][c] # to_csv(batch).table.rows[i][c]

\* C22: when two update_master_base invocations on one master file both
\* read it before either writes, the file ends as the table the last writer
\* computed, and no row of the other invocation's batch is in it.
C22_LastWriterWins ==
    Interleaved =>
       /\ fs[MasterPath] = to_csv(artifacts.calls[LastWriter].final)
       /\ \A p \in Procs \ {LastWriter} : StoreLacks(artifacts.calls[p].new_clean_df)

C22_Witness ==
    /\ Interleaved
    /\ LastWriter = 1
    /\ NRows(artifacts.calls[2].new_clean_df) > 0
    /\ NRows(artifacts.calls[1].master_df) > 0
    /\ NRows(Store) = NRows(artifacts.calls[1].master_df) + NRows(artifacts.calls[1].new_clean_df)

\* ------------------------------------------------ layered completion claims
Comp0(i) == IF HasCol(df, "competencia") THEN df.rows[i]["competencia"] ELSE NA
CompOut(i) == out.rows[i]["competencia"]
FiscaliaText(i) ==
    IF HasCol(df, "fiscalia") THEN norm_series_upper(df.rows[i]["fiscalia"]) ELSE <<>>
HasFederalToken(i) == Search(FederalPat, FiscaliaText(i))
HasLocalToken(i) == Search(LocalPat, FiscaliaText(i))

\* the records of i's area that hold a value once the token rules have run;
\* the app variant drops the records without an area from every group
AreaPeersUB(i) ==
    IF ~HasCol(df, "alcaldia_hecho") THEN {}
    ELSE {j \in 1..NRows(df) :
            /\ df.rows[j]["alcaldia_hecho"] = df.rows[i]["alcaldia_hecho"]
            /\ ~IsNA(Comp0(j)) \/ HasFederalToken(j) \/ HasLocalToken(j)}
AreaPeers(i) ==
    IF ~HasCol(df, cfg.alcaldia_col) \/ IsNA(df.rows[i][cfg.alcaldia_col]) THEN {}
    ELSE {j \in 1..NRows(df) :
            /\ df.rows[j][cfg.alcaldia_col] = df.rows[i][cfg.alcaldia_col]
            /\ ~IsNA(Comp0(j)) /\ ~IsBlank(Comp0(j))}

\* v is a most frequent value among the completed cells of the records idx
IsModeAmong(v, idx) ==
    /\ \E j \in idx : CompOut(j) = v
    /\ \A j \in idx : Cardinality({k \in idx : CompOut(k) = CompOut(j)})
                          <= Cardinality({k \in idx : CompOut(k) = v})

ModeThenSentinel(i, peers, sentinel) ==
    IF peers = {} THEN CompOut(i) = sentinel ELSE IsModeAmong(CompOut(i), peers)

\* the layers of the app variant, whose context text is the cell itself
LayersApp ==
    op = "fill_competencia" =>
       \A i \in 1..NRows(df) :
          (IsNA(Comp0(i)) \/ IsBlank(Comp0(i))) => ModeThenSentinel(i, AreaPeers(i), CompUnknown)

\* C23 as stated: a record without jurisdiction whose context holds a federal
\* (resp. local) token becomes FEDERAL (resp. LOCAL) whatever its area's mode.
C23_TokenThenModeThenSentinel ==
    /\ LayersApp
    /\ op = "fill_competencia_ub" =>
          \A i \in 1..NRows(df) :
             IsNA(Comp0(i)) =>
                /\ HasFederalToken(i) => CompOut(i) = CompFederal
                /\ HasLocalToken(i) => CompOut(i) = CompLocal
                /\ (~HasFederalToken(i) /\ ~HasLocalToken(i)) =>
                      ModeThenSentinel(i, AreaPeersUB(i), CompDesconocido)

\* C23, amended: completion is layered in a fixed order.  A record without
\* jurisdiction whose context holds a federal token becomes FEDERAL, one whose
\* context holds a local token and no federal token becomes LOCAL, whatever the
\* area's mode; a record still missing takes a most frequent value among the
\* non-missing values of its area, and the sentinel only when its area has none.
C23_FederalThenLocalThenModeThenSentinel ==
    /\ LayersApp
    /\ op = "fill_competencia_ub" =>
          \A i \in 1..NRows(df) :
             IsNA(Comp0(i)) =>
                /\ HasFederalToken(i) => CompOut(i) = CompFederal
                /\ (HasLocalToken(i) /\ ~HasFederalToken(i)) => CompOut(i) = CompLocal
                /\ (~HasFederalToken(i) /\ ~HasLocalToken(i)) =>
                      ModeThenSentinel(i, AreaPeersUB(i), CompDesconocido)

\* a record with a federal token in an area whose only value is another one
C23_Witness ==
    /\ op = "fill_competencia_ub"
    /\ HasCol(df, "alcaldia_hecho")
    /\ \E i, j \in 1..NRows(df) :
          /\ IsNA(Comp0(i)) /\ HasFederalToken(i) /\ CompOut(i) = CompFederal
          /\ df.rows[j]["alcaldia_hecho"] = df.rows[i]["alcaldia_hecho"]
          /\ Comp0(j) = CompComun

\* ------------------------------------------------ coordinate filling claims
Coords == {"latitud", "longitud"}
HasGeo == \A c \in {"colonia_hecho", "alcaldia_hecho"} \cup Coords : HasCol(df, c)
LocalityMedian(t, i, c) == GroupMedian(t, "colonia_hecho", c, t.rows[i]["colonia_hecho"])
AreaMedian(t, i, c) == GroupMedian(t, "alcaldia_hecho", c, t.rows[i]["alcaldia_hecho"])

\* the records of i's group under key `by` that hold coordinate c in the input
GroupHolds(i, by, c) ==
    {j \in 1..NRows(df) :
        /\ ~IsNA(df.rows[i][by]) /\ df.rows[j][by] = df.rows[i][by]
        /\ ~IsNaN(df.rows[j][c])}

\* the input once the locality medians are written
AfterLocality ==
    [df EXCEPT !.rows = [j \in 1..NRows(df) |->
        [k \in DOMAIN df.rows[j] |->
            IF k \in Coords /\ IsNaN(df.rows[j][k]) THEN LocalityMedian(df, j, k)
            ELSE df.rows[j][k]]]]

\* locality first, area second; missing only when both groups hold nothing
FilledInOrder(areaFrom) ==
    \A i \in 1..NRows(df) : \A c \in Coords :
        IsNaN(df.rows[i][c]) =>
           /\ out.rows[i][c] = IF ~IsNaN(LocalityMedian(df, i, c)) THEN LocalityMedian(df, i, c)
                                ELSE AreaMedian(areaFrom, i, c)
           /\ GroupHolds(i, "colonia_hecho", c) # {} => ~IsNaN(LocalityMedian(df, i, c))
           /\ IsNaN(out.rows[i][c]) =>
                 GroupHolds(i, "colonia_hecho", c) \cup GroupHolds(i, "alcaldia_hecho", c) = {}

UploadCols == <<"delito", "alcaldia_hecho", "fecha_hecho", "alcaldia_catalogo">>

\* uploaded batches: one to MaxRows records with or without a catalogue area,
\* or a batch without that column
UploadBatches ==
    {Table(UploadCols, r) :
        r \in SeqsUpTo([delito : {TxtDog, TxtCatDog}, alcaldia_hecho : {NA, AlcX},
                        fecha_hecho : {Stamp(2024, 3, 14, 0)},
                        alcaldia_catalogo : {NA, AlcX}], MaxRows) \ {<<>>}}
    \cup {Table(<<"delito", "alcaldia_hecho", "fecha_hecho">>,
                <<[delito |-> TxtDog, alcaldia_hecho |-> AlcX,
                   fecha_hecho |-> Stamp(2024, 3, 14, 0)]>>)}

InitUpload ==
    /\ op = "none"
    /\ df \in UploadBatches
    /\ \E path \in {NoPath, WeatherPath} : cfg = [clima_csv_path |-> path]
    /\ \E w \in {MissingFile, WeatherDaily, WeatherNoTemp} :
          fs = [jam |-> JamFull, weather |-> w]
    /\ out = NoTable
    /\ stats = NoStats
    /\ err = "none"
    /\ ruleset = NoRx
    /\ artifacts = NoArtifacts

RunEdaForUpload ==
    /\ op = "none"
    /\ \E r \in {run_eda_for_upload(df, cfg.clima_csv_path, RulesPath,
                                     [rules |-> fs.jam, weather |-> fs.weather])} :
          IF r.ok THEN out' = r.value.out /\ stats' = r.value.stats /\ err' = "none"
          ELSE err' = r.error /\ UNCHANGED <<out, stats>>
    /\ df' = copy(df, out')
    /\ op' = "run_eda_for_upload"
    /\ UNCHANGED <<artifacts, cfg, fs, ruleset>>

NextUpload == RunEdaForUpload

SpecUpload == InitUpload /\ [][NextUpload]_vars

\* ------------------------------------------------------------ upload claims
UploadReturned == op = "run_eda_for_upload" /\ err = "none"
CatalogoMissing == Cardinality({i \in 1..NRows(df) : IsNA(df.rows[i]["alcaldia_catalogo"])})

\* C25 as stated: run_eda_for_upload removes alcaldia_catalogo from the
\* cleaned batch only when its missing fraction exceeds 0.95, and se_eliminaria
\* is 1 exactly when the column was removed from the output.
C25_SparseColumnRemovedOnlyWhenSparse ==
    (UploadReturned /\ HasCol(df, "alcaldia_catalogo")) =>
       /\ ~HasCol(out, "alcaldia_catalogo") => 20 * CatalogoMissing > 19 * NRows(df)
       /\ stats.alcaldia_catalogo_sparse.se_eliminaria = 1 <=> ~HasCol(out, "alcaldia_catalogo")

\* ------------------------------------------------ weather enrichment claims
WeatherColumns ==
    {"clima_temp", "clima_conditions", "clima_bucket", "clima_temperatura", "clima_condicion"}
BatchComplete == \A k \in 1..Len(IncidentCols) : HasCol(df, IncidentCols[k])
RulesetFine == cfg.regex_path = NoPath \/ ~RulesetUnusable
LacksWeatherColumn ==
    /\ robust_read_csv(fs.weather).ok
    /\ \E c \in {"name", "datetime", "temp", "conditions"} :
          ~HasCol(robust_read_csv(fs.weather).value, c)

\* C26 as stated: run without a weather path, even when enrichment was asked
\* for, the orchestrator completes, adds no weather column and records in its
\* statistics that enrichment was skipped; run with a path whose source lacks
\* one of name, datetime, temp, conditions, it fails with the error that names
\* the required columns.
C26_SkipRecordedMalformedRaises ==
    op = "run_eda" =>
       /\ (cfg.weather_path = "" /\ BatchComplete /\ RulesetFine) => err = "none"
       /\ (cfg.weather_path = "" /\ err = "none") =>
             /\ \A c \in WeatherColumns : ~HasCol(out, c)
             /\ "clima" \in DOMAIN stats
       /\ (cfg.with_weather /\ cfg.weather_path # "" /\ LacksWeatherColumn
              /\ BatchComplete /\ RulesetFine) => err = "KeyError"

\* ---------------------------------------------------- pedestrian flag claims
PedestrianKey == "ROBBERY_PEDESTRIAN_PRIORITY"
MatchesPedestrian(i) ==
    /\ PedestrianKey \in DOMAIN ruleset.patterns
    /\ Search(ruleset.patterns[PedestrianKey], TextoOf(i))
Flagged(i) == out.rows[i]["robo_pasajero"] = BoolCell(TRUE)

\* C27: a record's pedestrian-robbery flag is true iff its normalised text
\* matches the pedestrian-priority pattern or its primary group is that group,
\* also when an earlier-ordered group took the record; under a ruleset without
\* that pattern no record is flagged.
C27_PedestrianFlag ==
    AppClassified =>
       /\ \A i \in 1..NRows(out) :
             /\ out.rows[i]["robo_pasajero"] \in {BoolCell(TRUE), BoolCell(FALSE)}
             /\ Flagged(i) <=> (MatchesPedestrian(i) \/ GroupOf(i) = PedestrianKey)
       /\ PedestrianKey \notin DOMAIN ruleset.patterns => \A i \in 1..NRows(out) : ~Flagged(i)

\* a flagged record whose primary group is an earlier-ordered one, next to an
\* unflagged record
C27_Witness ==
    /\ AppClassified
    /\ \E i, j \in 1..NRows(out) :
          /\ MatchesPedestrian(i) /\ GroupOf(i) # PedestrianKey /\ GroupOf(i) # "OTHER"
          /\ Flagged(i) /\ ~Flagged(j)

\* ------------------------------------------------------- cross-fill claims
BothColonias == HasCol(df, "colonia_hecho") /\ HasCol(df, "colonia_catalogo")
ChangedIn(c) == Cardinality({i \in 1..NRows(df) : out.rows[i][c] # df.rows[i][c]})
NoFills == stats.filled_hecho_from_catalogo = 0 /\ stats.filled_catalogo_from_hecho = 0

\* C28: after cross_fill_colonias on a table with both locality-name columns
\* every record has both names present or both missing, and the two counts are
\* the numbers of records changed in each direction; applied again it reports
\* zero for both; without one of the columns the table comes back unchanged
\* with both counts zero.
C28_CrossFillPairsUp ==
    /\ (op = "cross_fill_colonias" /\ BothColonias) =>
          /\ \A i \in 1..NRows(out) :
                IsNA(out.rows[i]["colonia_hecho"]) <=> IsNA(out.rows[i]["colonia_catalogo"])
          /\ stats.filled_hecho_from_catalogo = ChangedIn("colonia_hecho")
          /\ stats.filled_catalogo_from_hecho = ChangedIn("colonia_catalogo")
    /\ (op = "cross_fill_colonias" /\ ~BothColonias) => out = df /\ NoFills /\ err = "none"
    /\ op = "cross_fill_colonias_again" => out = df /\ NoFills

\* a second application after a first one that filled in both directions
C28_Witness ==
    /\ op = "cross_fill_colonias_again"
    /\ artifacts.first.filled_hecho_from_catalogo > 0
    /\ artifacts.first.filled_catalogo_from_hecho > 0
    /\ NoFills

\* ------------------------------------------------------ missing key claims
KeyMissing(r) ==
    \E k \in 1..Len(cfg.id_cols) : IsMissingCell(cfg.id_cols[k], r[cfg.id_cols[k]])
Copies(t, r) == Cardinality({i \in 1..NRows(t) : t.rows[i] = r})

\* C29 as stated: with id_cols supplied, rows whose key value is missing - the
\* rows of a table that lacked the key column before alignment included - are
\* never treated as duplicates of one another, so every such row of the
\* concatenated table is still in the saved table.
C29_MissingKeyRowsKept ==
    (Merged /\ Len(cfg.id_cols) > 0) =>
       \A i \in 1..NRows(artifacts.combined) :
          KeyMissing(artifacts.combined.rows[i]) =>
             Copies(out, artifacts.combined.rows[i])
                = Copies(artifacts.combined, artifacts.combined.rows[i])

\* ------------------------------------- hour cleaning (app/EDA/hour_cleaning.py)
\* an hour cell is the sequence of the characters of its text
Digits == {"0", "1", "2", "3", "4", "5", "6", "7", "8", "9"}
DigitVal(c) ==
    CASE c = "0" -> 0 [] c = "1" -> 1 [] c = "2" -> 2 [] c = "3" -> 3 [] c = "4" -> 4
      [] c = "5" -> 5 [] c = "6" -> 6 [] c = "7" -> 7 [] c = "8" -> 8 [] c = "9" -> 9

\* df[col].astype(str): a missing cell becomes the text "nan"
astype_str(x) == IF IsNA(x) THEN <<"n", "a", "n">> ELSE x

RECURSIVE str_strip(_)
\* .str.strip()
str_strip(s) ==
    IF Len(s) = 0 THEN s
    ELSE IF s[1] = " " THEN str_strip(Tail(s))
    ELSE IF s[Len(s)] = " " THEN str_strip(SubSeq(s, 1, Len(s) - 1))
    ELSE s

\* s starts with the characters of p at position i
MatchAt(s, p, i) == i + Len(p) - 1 <= Len(s) /\ SubSeq(s, i, i + Len(p) - 1) = p

RECURSIVE str_replace(_, _, _)
\* .str.replace(old, new, regex=False)
str_replace(s, old, new) ==
    IF Len(s) = 0 THEN s
    ELSE IF MatchAt(s, old, 1)
        THEN new \o str_replace(SubSeq(s, Len(old) + 1, Len(s)), old, new)
    ELSE <<s[1]>> \o str_replace(Tail(s), old, new)

RECURSIVE SplitOn(_, _)
\* the fields of s between the separators sep
SplitOn(s, sep) ==
    IF \A i \in 1..Len(s) : s[i] # sep THEN <<s>>
    ELSE With(CHOOSE i \in 1..Len(s) : s[i] = sep /\ \A j \in 1..(i - 1) : s[j] # sep,
              LAMBDA i : <<SubSeq(s, 1, i - 1)>> \o SplitOn(SubSeq(s, i + 1, Len(s)), sep))

\* a strptime number field: one or two digits
IsField(f) == Len(f) \in {1, 2} /\ \A i \in 1..Len(f) : f[i] \in Digits
FieldVal(f) == IF Len(f) = 1 THEN DigitVal(f[1]) ELSE 10 * DigitVal(f[1]) + DigitVal(f[2])
FieldIn(f, lo, hi) == IsField(f) /\ FieldVal(f) >= lo /\ FieldVal(f) <= hi

\* pd.to_datetime(s, format="%H:%M:%S", errors="coerce").dt.hour, NaN for NaT
ParseHMS(s) ==
    With(SplitOn(s, ":"), LAMBDA f :
        IF Len(f) = 3 /\ FieldIn(f[1], 0, 23) /\ FieldIn(f[2], 0, 59) /\ FieldIn(f[3], 0, 59)
        THEN Num(FieldVal(f[1])) ELSE NaN)

\* pd.to_datetime(s, format="%H:%M", errors="coerce").dt.hour
ParseHM(s) ==
    With(SplitOn(s, ":"), LAMBDA f :
        IF Len(f) = 2 /\ FieldIn(f[1], 0, 23) /\ FieldIn(f[2], 0, 59)
        THEN Num(FieldVal(f[1])) ELSE NaN)

Meridiems ==
    [AM |-> {<<"A", "M">>, <<"a", "m">>}, PM |-> {<<"P", "M">>, <<"p", "m">>}]

\* pd.to_datetime(s, format="%I:%M:%S %p", errors="coerce").dt.hour after
\* 'a. m.' / 'p. m.' are replaced by AM / PM
Parse12(s0) ==
    With(str_replace(str_replace(s0, <<"a", ".", " ", "m", ".">>, <<"A", "M">>),
                     <<"p", ".", " ", "m", ".">>, <<"P", "M">>), LAMBDA s :
    With(SplitOn(s, " "), LAMBDA parts :
    IF Len(parts) < 2 \/ \E k \in 2..(Len(parts) - 1) : parts[k] # <<>> THEN NaN
    ELSE
    With(SplitOn(parts[1], ":"), LAMBDA f :
    With(parts[Len(parts)], LAMBDA p :
        IF Len(f) = 3 /\ FieldIn(f[1], 1, 12) /\ FieldIn(f[2], 0, 59) /\ FieldIn(f[3], 0, 59)
              /\ p \in Meridiems.AM \cup Meridiems.PM
        THEN Num((FieldVal(f[1]) % 12) + (IF p \in Meridiems.PM THEN 12 ELSE 0))
        ELSE NaN))))

\* s.str.extract(r"(\d{1,2})")[0].astype("float"): the first one or two digits
ExtractHour(s) ==
    IF \A i \in 1..Len(s) : s[i] \notin Digits THEN NaN
    ELSE With(CHOOSE i \in 1..Len(s) : s[i] \in Digits /\ \A j \in 1..(i - 1) : s[j] \notin Digits,
              LAMBDA i :
                 IF i < Len(s) /\ s[i + 1] \in Digits
                 THEN Num(10 * DigitVal(s[i]) + DigitVal(s[i + 1]))
                 ELSE Num(DigitVal(s[i])))

\* the hour of one cell: the three formats in turn, then the first number
HourOf(x) ==
    With(str_strip(astype_str(x)), LAMBDA s :
        IF ~IsNaN(ParseHMS(s)) THEN ParseHMS(s)
        ELSE IF ~IsNaN(ParseHM(s)) THEN ParseHM(s)
        ELSE IF ~IsNaN(Parse12(s)) THEN Parse12(s)
        ELSE ExtractHour(s))

\* normalize_hour_column(df, col="hora_hecho")
normalize_hour_column(t) ==
    IF ~HasCol(t, "hora_hecho") THEN t
    ELSE SetCol(t, "hora_hecho", [i \in 1..NRows(t) |-> HourOf(t.rows[i]["hora_hecho"])])

\* ----------------------------------------------------- hour cleaning runs
HourPadded == <<"0", "4", ":", "0", "0", ":", "0", "0">>
HourShort == <<"4", ":", "0", "0">>
HourMorning == <<"0", "4", ":", "0", "0", ":", "0", "0", " ", "a", ".", " ", "m", ".">>
HourNight == <<"1", "1", ":", "0", "0", ":", "0", "0", " ", "p", ".", " ", "m", ".">>
HourMidnight == <<"1", "2", ":", "3", "0", ":", "0", "0", " ", "a", ".", " ", "m", ".">>
HourSpaced == <<" ", "2", "3", ":", "5", "9", ":", "5", "9", " ">>
HourTooLarge == <<"2", "5", ":", "0", "0", ":", "0", "0">>
HourWords == <<"7", " ", "p", "m">>
HourText == <<"s", "i", "n", " ", "d", "a", "t", "o">>

HourCells ==
    {NA, HourPadded, HourShort, HourMorning, HourNight, HourMidnight, HourSpaced,
     HourTooLarge, HourWords, HourText}

HourTables ==
    {Table(<<"hora_hecho">>, [i \in 1..Len(s) |-> [hora_hecho |-> s[i]]]) :
        s \in SeqsUpTo(HourCells, MaxRows)}
    \cup {Table(<<"delito">>, <<[delito |-> TxtDog]>>)}

InitHours ==
    /\ op = "none"
    /\ df \in HourTables
    /\ cfg = Empty
    /\ fs = Empty
    /\ out = NoTable
    /\ stats = NoStats
    /\ err = "none"
    /\ ruleset = NoRx
    /\ artifacts = NoArtifacts

\* df[col] = horas writes the caller's table, which is also what is returned;
\* artifacts.given keeps the table as it was passed
NormalizeHourColumn ==
    /\ op = "none"
    /\ out' = normalize_hour_column(df)
    /\ df' = out'
    /\ artifacts' = [given |-> df]
    /\ op' = "normalize_hour_column"
    /\ UNCHANGED <<cfg, fs, stats, err, ruleset>>

NextHours == NormalizeHourColumn

SpecHours == InitHours /\ [][NextHours]_vars

\* --------------------------------------------------- hour cleaning claims
\* the text of cell i of the table as passed, in one of the accepted formats
AcceptedFormat(i) ==
    With(str_strip(astype_str(artifacts.given.rows[i]["hora_hecho"])), LAMBDA s :
        ~IsNaN(ParseHMS(s)) \/ ~IsNaN(ParseHM(s)) \/ ~IsNaN(Parse12(s)))

\* C30 as stated: after normalize_hour_column every value of the hour column
\* is an integer in 0..23 or missing, and a value in none of the accepted
\* formats (HH:MM:SS, HH:MM, 12-hour with a. m. / p. m.) is missing.
C30_HourInRangeOrMissing ==
    (op = "normalize_hour_column" /\ HasCol(out, "hora_hecho")) =>
       \A i \in 1..NRows(out) :
          /\ out.rows[i]["hora_hecho"] \in {NaN} \cup {Num(h) : h \in 0..23}
          /\ ~AcceptedFormat(i) => IsNaN(out.rows[i]["hora_hecho"])

====
